---------------------------- MODULE Spec2Model ----------------------------
(***************************************************************************)
(* Model of the snippet runner of PVHewson/snips.                          *)
(*                                                                         *)
(*   - the browser extension: popup.js (UI thread) talking to              *)
(*     background.js (service worker) by request/response messages;        *)
(*   - the DevTools runner: the SnippetRunner function of                  *)
(*     snippets/contact.clear.critical.insights/run.js (lines 187-727).    *)
(*                                                                         *)
(* Strings the code slices, trims or compares are sequences of atoms       *)
(* (indivisible substrings, written as TLA+ strings); every other string   *)
(* is a TLA+ string.  null / undefined values are the empty sequence <<>>  *)
(* and a present value v is <<v>>.                                         *)
(***************************************************************************)
EXTENDS Integers, Sequences, FiniteSets, TLC

VARIABLES
    variant,          \* which program runs: "extension", "devtools", or a function-level harness
    CONFIG,           \* the front-end's CONFIG object (popup.js 5-9, run.js 203-214)
    githubToken,      \* chrome.storage.local "githubToken": <<>> (never set) or <<token>>
    ops,              \* the asynchronous operations started so far (loads, selections, runs, token saves)
    inbox,            \* responses sent by background.js, not yet received by the popup (FIFO)
    snippets,         \* popup.js 126 / run.js 529
    list,             \* descriptors shown in the list element; <<>> with rendered = FALSE: never rendered
    rendered,         \* whether renderList has run at least once
    selected,         \* popup.js 127 / run.js 530
    selectedCode,     \* popup.js 128 / run.js 531
    selectedReadme,   \* popup.js 129 / run.js 532
    runBtn,           \* [disabled, onclick]: the Run button
    copyBtn,          \* [disabled]: the Copy button
    meta,             \* the status line (setMeta)
    preview,          \* what the preview pane shows
    lastStep,         \* history: if the last step was a response to a fetch, the response and what the fetch did with it
    limit,            \* the number of operations after which the session starts no further one
    callArg,          \* function-level harness: the argument
    callRet,          \* function-level harness: the result
    bulk,             \* the bulk-update snippet's submit handler (run.js 104-184)
    prompted          \* history: how many times the runner has shown its token prompt (run.js 358)

vars == <<variant, CONFIG, githubToken, ops, inbox, snippets, list, rendered,
          selected, selectedCode, selectedReadme, runBtn, copyBtn, meta,
          preview, lastStep, limit, callArg, callRet, bulk, prompted>>

-----------------------------------------------------------------------------
(* Bounds of the model.                                                    *)

MaxManifestLen == 3     \* entries of a manifest the sort is checked on
MaxOps == 3             \* operations of one session (Spec)
MaxFetchOps == 2        \* operations of one session (SpecFetch)
MaxTail == 2            \* atoms appended to a URL head in the URL-mapping harness

-----------------------------------------------------------------------------
(* Generic helpers.                                                        *)

Range(s) == {s[i] : i \in 1..Len(s)}

SeqsUpTo(S, n) == UNION {[1..k -> S] : k \in 0..n}

RECURSIVE StripLeading(_, _)
StripLeading(s, a) ==
    IF s # <<>> /\ Head(s) = a THEN StripLeading(Tail(s), a) ELSE s

RECURSIVE StripTrailing(_, _)
StripTrailing(s, a) ==
    IF s # <<>> /\ s[Len(s)] = a THEN StripTrailing(SubSeq(s, 1, Len(s) - 1), a) ELSE s

\* String.prototype.trim on a string of atoms whose only whitespace atom is " ".
Trim(s) == StripTrailing(StripLeading(s, " "), " ")

\* String.prototype.startsWith
StartsWith(s, p) == Len(s) >= Len(p) /\ SubSeq(s, 1, Len(p)) = p

\* String.prototype.slice(n)
SliceFrom(s, n) == SubSeq(s, n + 1, Len(s))

-----------------------------------------------------------------------------
(* Snippet descriptors and manifest texts.                                 *)
(* A descriptor keeps the fields the code reads: id and risk are strings   *)
(* ("" when absent), name is a string of characters (<<>> when absent or   *)
(* empty: the code reads it as  name || ""  and  name || id), and the two  *)
(* paths are strings of atoms (<<>> when absent).                          *)

Descriptor(id, name, risk, readmePath, entryPath) ==
    [id |-> id, name |-> name, risk |-> risk,
     readmePath |-> readmePath, entryPath |-> entryPath]

\* The letters names are written in, in alphabetical order.
LowerLetters == <<"a", "b", "e", "h", "l", "p", "t">>
UpperLetters == <<"A", "B", "E", "H", "L", "P", "T">>

IsUpper(c) == c \in Range(UpperLetters)

\* The position of a letter in the alphabet, whatever its case.
LetterIndex(c) ==
    CHOOSE i \in 1..Len(LowerLetters) : LowerLetters[i] = c \/ UpperLetters[i] = c

\* Lexicographic comparison of two sequences of numbers: -1, 0 or 1.
LexCompare(k1, k2) ==
    LET n == IF Len(k1) < Len(k2) THEN Len(k1) ELSE Len(k2)
        diff == {i \in 1..n : k1[i] # k2[i]}
    IN  IF diff = {}
        THEN (IF Len(k1) < Len(k2) THEN -1 ELSE IF Len(k1) > Len(k2) THEN 1 ELSE 0)
        ELSE LET i == CHOOSE j \in diff : \A k \in diff : j <= k
             IN  IF k1[i] < k2[i] THEN -1 ELSE 1

\* Comparison by UTF-16 code unit, as  a < b  compares strings: every upper
\* case letter precedes every lower case letter.
CodeUnitCompare(x, y) ==
    LexCompare([i \in 1..Len(x) |-> LetterIndex(x[i]) + (IF IsUpper(x[i]) THEN 0 ELSE 100)],
               [i \in 1..Len(y) |-> LetterIndex(y[i]) + (IF IsUpper(y[i]) THEN 0 ELSE 100)])

\* String.prototype.localeCompare with no locale argument, on unaccented
\* Latin letters (the default collation of the browsers' ICU): the letters
\* decide, case ignored (primary level); strings with the same letters are
\* ordered by case, lower case first at the first difference (tertiary).
LocaleCompare(x, y) ==
    LET px == [i \in 1..Len(x) |-> LetterIndex(x[i])]
        py == [i \in 1..Len(y) |-> LetterIndex(y[i])]
        tx == [i \in 1..Len(x) |-> IF IsUpper(x[i]) THEN 1 ELSE 0]
        ty == [i \in 1..Len(y) |-> IF IsUpper(y[i]) THEN 1 ELSE 0]
    IN  IF LexCompare(px, py) # 0 THEN LexCompare(px, py) ELSE LexCompare(tx, ty)

\* The comparator  (a, b) => (a.name || "").localeCompare(b.name || "")
CompareByName(a, b) == LocaleCompare(a.name, b.name)

\* Array.prototype.sort is stable: an element goes after every element that
\* does not compare greater than it.
RECURSIVE InsertSorted(_, _)
InsertSorted(x, s) ==
    IF s = <<>> THEN <<x>>
    ELSE IF CompareByName(Head(s), x) <= 0
         THEN <<Head(s)>> \o InsertSorted(x, Tail(s))
         ELSE <<x>> \o s

RECURSIVE SortFrom(_, _)
SortFrom(arr, acc) ==
    IF arr = <<>> THEN acc ELSE SortFrom(Tail(arr), InsertSorted(Head(arr), acc))

\* manifest.snippets.slice().sort(comparator)
SortSnippets(arr) == SortFrom(arr, <<>>)

\* A text (a file of the repository, a response body): its content, a
\* string of atoms, and what JSON.parse makes of it: <<>> when it is not
\* JSON, else <<value>>.
Text(content, json) == [content |-> content, json |-> json]

\* A JSON value, as far as the manifest check reads it: its type and, for an
\* object, its snippets field: "absent", "other" (present, not an array) or
\* "array" with the items.
JsonValue(type, field, items) == [type |-> type, field |-> field, items |-> items]

EmptyText == Text(<<>>, <<>>)
Garbage == Text(<<"garbage">>, <<>>)
FileText(path) == Text(<<"text of ">> \o path, <<>>)
ManifestWith(value) == Text(<<"manifest">>, <<value>>)

MalformedManifests ==
    { EmptyText, Garbage,
      ManifestWith(JsonValue("null", "absent", <<>>)),
      ManifestWith(JsonValue("number", "absent", <<>>)),
      ManifestWith(JsonValue("string", "absent", <<>>)),
      ManifestWith(JsonValue("array", "absent", <<>>)),
      ManifestWith(JsonValue("object", "absent", <<>>)),
      ManifestWith(JsonValue("object", "other", <<>>)) }

WellFormedManifest(arr) == ManifestWith(JsonValue("object", "array", arr))

\* JSON.parse: throws on text that is not JSON, else yields the value.
JSONparse(text) ==
    IF text.json = <<>>
    THEN [threw |-> TRUE, value |-> JsonValue("undefined", "absent", <<>>)]
    ELSE [threw |-> FALSE, value |-> text.json[1]]

\* !manifest || !Array.isArray(manifest.snippets)
\* (null is falsy; a number, a string or an array has no snippets array).
LacksSnippetsArray(manifest) ==
    \/ manifest.type = "null"
    \/ manifest.type # "object"
    \/ manifest.field # "array"

LoadFailure(error) == [ok |-> FALSE, error |-> error, snippets |-> <<>>]

\* A load that takes  manifest?.snippets || []  without checking.
ParseLeniently(text) ==
    [ok |-> TRUE, error |-> "",
     snippets |-> IF text.json = <<>> THEN <<>> ELSE SortSnippets(text.json[1].items)]

\* JSON.parse, the shape check and the sort of a manifest load
\* (background.js 160-166, run.js 540-544).
ParseManifest(text) ==
    LET parsed == JSONparse(text)
    IN  IF parsed.threw THEN LoadFailure("SyntaxError")
        ELSE IF LacksSnippetsArray(parsed.value)
             THEN LoadFailure("manifest.json must contain { snippets: [...] }")
             ELSE [ok |-> TRUE, error |-> "",
                   snippets |-> SortSnippets(parsed.value.items)]

-----------------------------------------------------------------------------
(* The fetch layer.                                                        *)

RawHost == "https://raw.githubusercontent.com/"
ApiHost == "https://api.github.com/repos/"

\* DEFAULT_CONFIG of background.js and the repository fields of the
\* runner's CONFIG: the same values.  Nothing in the code writes the
\* "config" key of the extension's storage, so getConfig yields the default.
DEFAULT_CONFIG ==
    [owner |-> "PVHewson", repo |-> "snips", ref |-> "main",
     manifestPath |-> <<"snippets", "/", "manifest.json">>]

\* A fallback on every client or server error.
AnyErrorStatuses == {st \in 400..599 : TRUE}

\* The statuses with which a fetch falls back to the GitHub API.
FallbackStatuses == {401, 403, 404}

\* Response.ok
IsOk(status) == status >= 200 /\ status <= 299

\* rawUrl: leading slashes of the path are dropped.
rawUrl(cfg, path) ==
    <<RawHost, cfg.owner, "/", cfg.repo, "/", cfg.ref, "/">> \o StripLeading(path, "/")

\* The prefix fetchViaGithubApi looks for.
Marker(cfg) == <<RawHost, cfg.owner, "/", cfg.repo, "/", cfg.ref, "/">>

\* A mapping that only looks for the raw host, not for the repository.
RepoPathByHost(cfg, url) ==
    IF StartsWith(url, <<RawHost>>) THEN <<SliceFrom(url, Len(Marker(cfg)))>> ELSE <<>>

\* const path = url.startsWith(marker) ? url.slice(marker.length) : null
\* <<>> is null, <<p>> the path p.
RepoPath(cfg, url) ==
    IF StartsWith(url, Marker(cfg)) THEN <<SliceFrom(url, Len(Marker(cfg)))>> ELSE <<>>

\* The contents-API URL of a repository path.
ApiUrl(cfg, path) ==
    <<ApiHost, cfg.owner, "/", cfg.repo, "/contents/">> \o path \o <<"?ref=", cfg.ref>>

\* A storage read that never finds the token.
NoStoredToken(stored) == <<>>

\* getToken: (githubToken ?? "").trim() of the stored value.
getToken(stored) == IF stored = <<>> THEN <<>> ELSE Trim(stored[1])

\* The error a fetch fails with: its kind ("fetch": Fetch failed (status),
\* "api": GitHub API fetch failed (status), "nonfile", "map", "json"), and
\* the status and body text it carries.
FetchError(kind, status, details) ==
    [kind |-> kind, status |-> status, details |-> details]
NoError == FetchError("none", 0, <<>>)

\* An error message that leaves the body text out.
NoDetails(body) == <<>>

\* The body text in an error message:  body ? "Details: " + body : "".
Details(body) ==
    IF body.content = <<>> THEN <<>> ELSE <<"Details: ">> \o body.content

\* One fetch of one resource.  pc: "raw" (raw GET in flight), "api"
\* (contents-API GET in flight), "ok" (resolved with text), "err".
\* nRaw, nApi: requests issued; tokenReads: getToken calls; prompts:
\* prompt() dialogs shown; bearer: the Authorization token of the API GET.
NewFetch(role, url) ==
    [role |-> role, url |-> url, pc |-> "raw", nRaw |-> 1, nApi |-> 0,
     tokenReads |-> 0, prompts |-> 0, apiUrl |-> <<>>, bearer |-> <<>>,
     text |-> EmptyText, err |-> NoError]

Resolve(f, text) == [f EXCEPT !.pc = "ok", !.text = text]
Reject(f, err) == [f EXCEPT !.pc = "err", !.err = err]

\* fetchViaGithubApi up to its first await: the URL mapping, then the GET.
fetchViaGithubApi(cfg, f, token) ==
    LET path == RepoPath(cfg, f.url)
    IN  IF path = <<>> \/ path[1] = <<>>
        THEN Reject(f, FetchError("map", 0, <<>>))
        ELSE [f EXCEPT !.pc = "api", !.nApi = @ + 1,
                       !.apiUrl = ApiUrl(cfg, path[1]), !.bearer = token]

\* Base64 content of the contents API (it may hold newlines) and its
\* decoding: newlines removed, atob, UTF-8 decode.
Base64(text) == Text(<<"base64:", "\n">> \o text.content, text.json)
DecodeContent(content) ==
    Text(Tail(SelectSeq(content.content, LAMBDA a : a # "\n")), content.json)

\* A response of the contents API: its status, its error body, and for a
\* success what res.json() yields: json "invalid" (not JSON), "null", or an
\* object of the given type with its content (<<>>: absent or empty).
ApiResponse(status, body, json, type, content) ==
    [status |-> status, body |-> body, json |-> json, type |-> type, content |-> content]

\* A fallback that asks the contents API once more after a failure.
AfterApiRetrying(f, res) ==
    IF ~IsOk(res.status) /\ f.nApi < 2 THEN [f EXCEPT !.nApi = @ + 1]
    ELSE IF ~IsOk(res.status) THEN Reject(f, FetchError("api", res.status, Details(res.body)))
    ELSE IF res.json = "invalid" THEN Reject(f, FetchError("json", 0, <<>>))
    ELSE IF res.json = "null" \/ res.type # "file" \/ res.content = <<>>
         THEN Reject(f, FetchError("nonfile", 0, <<>>))
         ELSE Resolve(f, DecodeContent(res.content[1]))

\* fetchViaGithubApi after its GET came back.
AfterApi(f, res) ==
    IF ~IsOk(res.status) THEN Reject(f, FetchError("api", res.status, Details(res.body)))
    ELSE IF res.json = "invalid" THEN Reject(f, FetchError("json", 0, <<>>))
    ELSE IF res.json = "null" \/ res.type # "file" \/ res.content = <<>>
         THEN Reject(f, FetchError("nonfile", 0, <<>>))
         ELSE Resolve(f, DecodeContent(res.content[1]))

\* A fetch that reads the token before it looks at the raw response.
FetchWithTokenFirst(cfg, f, status, body, stored) ==
    LET token == getToken(stored)
        g == [f EXCEPT !.tokenReads = @ + 1]
    IN  IF IsOk(status) THEN Resolve(g, body)
        ELSE IF status \in FallbackStatuses /\ token # <<>>
             THEN fetchViaGithubApi(cfg, g, token)
             ELSE Reject(g, FetchError("fetch", status, Details(body)))

\* background.js fetchTextWithFallback after the raw GET came back; stored
\* is the value of the githubToken key at that moment.
FetchTextWithFallbackAfterRaw(cfg, f, status, body, stored) ==
    IF IsOk(status) THEN Resolve(f, body)
    ELSE IF status \in FallbackStatuses
         THEN LET token == getToken(stored)
                  g == [f EXCEPT !.tokenReads = @ + 1]
              IN  IF token # <<>> THEN fetchViaGithubApi(cfg, g, token)
                  ELSE Reject(g, FetchError("fetch", status, Details(body)))
         ELSE Reject(f, FetchError("fetch", status, Details(body)))

\* The value of CONFIG.githubToken that asks for a prompt.
PromptSentinel == <<"prompt">>

\* run.js fetchText after the raw GET came back.  token is CONFIG.githubToken
\* at that moment, answer what prompt() returns if it is shown (<<>>: null,
\* the dialog was cancelled).  Yields the fetch and the new CONFIG.githubToken.
FetchTextAfterRaw(cfg, token, f, status, body, allowRetryWithTokenPrompt, answer) ==
    IF ~IsOk(status) /\ allowRetryWithTokenPrompt /\ token = PromptSentinel
       /\ status \in FallbackStatuses
    THEN LET g == [f EXCEPT !.prompts = @ + 1]
         IN  IF answer # <<>> /\ Trim(answer[1]) # <<>>
             THEN [f |-> fetchViaGithubApi(cfg, g, Trim(answer[1])),
                   githubToken |-> Trim(answer[1])]
             ELSE [f |-> Reject(g, FetchError("fetch", status, Details(body))),
                   githubToken |-> token]
    ELSE IF ~IsOk(status)
         THEN [f |-> Reject(f, FetchError("fetch", status, Details(body))),
               githubToken |-> token]
         ELSE [f |-> Resolve(f, body), githubToken |-> token]

-----------------------------------------------------------------------------
(* The environment: what the repository holds and what the servers answer. *)

Beta == <<"B", "e", "t", "a">>
alpha == <<"a", "l", "p", "h", "a">>

SnipA == Descriptor("a", Beta, "high", <<>>, <<>>)
SnipB == Descriptor("b", alpha, "low", <<>>, <<>>)
SnipC == Descriptor("c", <<>>, "High", <<>>, <<"/", "tools", "/", "c.js">>)
SnipD == Descriptor("d", <<"b">>, "", <<"/">>, <<>>)
SnipE == Descriptor("", <<"a">>, "medium", <<>>, <<>>)

\* The manifests the repository may hold during a session.
RepoManifests ==
    MalformedManifests
        \cup {WellFormedManifest(<<SnipA, SnipB>>),
              WellFormedManifest(<<SnipC, SnipD, SnipE>>)}

RawStatuses == {200, 401, 403, 404, 429, 500}
ApiErrorStatuses == {401, 404}
ErrorBodies == {EmptyText, Text(<<"denied">>, <<>>)}

\* What the repository may hold at the URL of a fetch.
ContentFor(f) ==
    CASE f.role = "manifest" -> RepoManifests
      [] f.role = "readme" -> {FileText(f.url)}
      [] OTHER -> {EmptyText, FileText(f.url)}

\* The same with a repository whose manifest is well formed or garbage.
PlainContentFor(f) ==
    IF f.role = "manifest"
    THEN {Garbage, WellFormedManifest(<<SnipA, SnipB>>),
          WellFormedManifest(<<SnipC, SnipD, SnipE>>)}
    ELSE ContentFor(f)

RawResponse(status, body) == [status |-> status, body |-> body]

\* A raw host that serves the file or fails with an internal error.
PlainResponses(f) ==
    {RawResponse(200, t) : t \in PlainContentFor(f)}
        \cup {RawResponse(500, Text(<<"denied">>, <<>>))}

RawResponses(f) ==
    {RawResponse(200, t) : t \in ContentFor(f)}
        \cup {RawResponse(st, b) : st \in RawStatuses \ {200}, b \in ErrorBodies}

ApiResponses(f) ==
    {ApiResponse(200, EmptyText, "object", "file", <<Base64(t)>>) :
        t \in ContentFor(f) \ {EmptyText}}
        \cup {ApiResponse(200, EmptyText, "object", "file", <<>>),
              ApiResponse(200, EmptyText, "object", "dir", <<>>),
              ApiResponse(200, EmptyText, "null", "", <<>>),
              ApiResponse(200, EmptyText, "invalid", "", <<>>)}
        \cup {ApiResponse(st, b, "invalid", "", <<>>) :
                st \in ApiErrorStatuses, b \in ErrorBodies}

\* What a user may type into the token dialog or the token prompt.
TokenInputs == {<<>>, <<" ">>, <<" ", "ghp_A", " ">>}

\* What prompt() may return: null (<<>>) or the text typed.
PromptAnswers == {<<>>} \cup {<<t>> : t \in TokenInputs}

-----------------------------------------------------------------------------
(* The execution of a snippet.                                             *)

\* A value a snippet throws or rejects with, as far as the catch clauses
\* read it: whether it has a message property and its text, what String()
\* makes of the value, and its stack property (<<>>: none).
Thrown(hasMessage, message, str, stack) ==
    [hasMessage |-> hasMessage, message |-> message, str |-> str, stack |-> stack]

ErrorBoom == Thrown(TRUE, "boom", "Error: boom", <<"Error: boom at <anonymous>">>)
ErrorNoMessage == Thrown(TRUE, "", "Error", <<"Error at <anonymous>">>)
StringBoom == Thrown(FALSE, "", "boom", <<>>)
StringEmpty == Thrown(FALSE, "", "", <<>>)
UndefinedValue == Thrown(FALSE, "", "undefined", <<>>)
SyntaxErrorValue ==
    Thrown(TRUE, "Unexpected token", "SyntaxError: Unexpected token",
           <<"SyntaxError: Unexpected token">>)

ThrownValues ==
    {ErrorBoom, ErrorNoMessage, StringBoom, StringEmpty, UndefinedValue}

\* What a source text does when it is wrapped and run: "syntax" (eval
\* rejects it), "returns" out, "throws" or "rejects" with a value.  A
\* wrapped snippet is an async function: a synchronous throw in it rejects
\* the promise the caller awaits.
Source(kind, out, thrown) == [kind |-> kind, out |-> out, thrown |-> thrown]

Returns(v) == Source("returns", v, UndefinedValue)
Throws(e) == Source("throws", "", e)
Rejects(e) == Source("rejects", "", e)
SyntaxFailure == Source("syntax", "", SyntaxErrorValue)

ReturnedValues == {"42", "undefined"}

Sources ==
    {Returns(v) : v \in ReturnedValues}
        \cup {Throws(e) : e \in ThrownValues}
        \cup {Rejects(e) : e \in ThrownValues}
        \cup {SyntaxFailure}

\* The result of a run: a record with the fields ok, out, error, stack,
\* each of the last three <<>> when the record has no such field.
ExecResult(ok, out, error, stack) ==
    [ok |-> ok, out |-> out, error |-> error, stack |-> stack]

\* (0, eval)(wrapped) and await fn(...): the value returned, or the value
\* the catch clause receives.
Evaluate(src) ==
    [threw |-> src.kind # "returns",
     out |-> src.out,
     e |-> IF src.kind = "syntax" THEN SyntaxErrorValue ELSE src.thrown]

\* A catch clause that hides the error.
RunInPageSwallowing(xrm, src) ==
    IF ~xrm THEN ExecResult(FALSE, <<>>, <<"Xrm not found on this page">>, <<>>)
    ELSE ExecResult(TRUE, IF Evaluate(src).threw THEN <<"undefined">> ELSE <<src.out>>,
                    <<>>, <<>>)

\* The function runInMainWorld injects into the page (background.js
\* 107-132); xrm: whether window.Xrm is there.
\*   error: String(e?.message ?? e)    stack: String(e?.stack ?? "")
RunInPage(xrm, src) ==
    IF ~xrm THEN ExecResult(FALSE, <<>>, <<"Xrm not found on this page">>, <<>>)
    ELSE LET r == Evaluate(src)
         IN  IF r.threw
             THEN ExecResult(FALSE, <<>>,
                             <<IF r.e.hasMessage THEN r.e.message ELSE r.e.str>>,
                             <<IF r.e.stack # <<>> THEN r.e.stack[1] ELSE "">>)
             ELSE ExecResult(TRUE, <<r.out>>, <<>>, <<>>)

\* The try/catch of runSnippet (run.js 665-703) as a result: the value the
\* status line reports, or the message of the status line and the alert:
\* String(err?.message || err).
RunnerResult(src) ==
    LET r == Evaluate(src)
    IN  IF r.threw
        THEN ExecResult(FALSE, <<>>,
                        <<IF r.e.hasMessage /\ r.e.message # "" THEN r.e.message
                          ELSE r.e.str>>,
                        <<>>)
        ELSE ExecResult(TRUE, <<r.out>>, <<>>, <<>>)

\* How a run that was started ends: whether the handler finds an active
\* tab, whether chrome.scripting.executeScript injects the function (it
\* rejects for a page the extension may not touch), whether the page has
\* window.Xrm, and what the source does.
Outcome(tab, xrm, src) == [tab |-> tab, injects |-> tab, xrm |-> xrm, src |-> src]

NoActiveTab == Outcome(FALSE, FALSE, Returns("undefined"))
InjectionFails == [Outcome(TRUE, FALSE, Returns("undefined")) EXCEPT !.injects = FALSE]
NoXrm == Outcome(TRUE, FALSE, Returns("undefined"))

\* Every way a run may end.
AllOutcomes ==
    {NoActiveTab, InjectionFails, NoXrm} \cup {Outcome(TRUE, TRUE, src) : src \in Sources}

\* The RUN_SNIPPET handler (background.js 191-201): the error its catch
\* clause reports, "" if nothing was thrown.
RunHandlerError(outcome) ==
    IF ~outcome.tab THEN "No active tab."
    ELSE IF ~outcome.injects THEN "Cannot access contents of the page."
    ELSE ""

\* The two ways the sessions of the user interface tell apart: the handler
\* refuses, or the snippet runs and returns.
PlainOutcomes == {NoActiveTab, Outcome(TRUE, TRUE, Returns("42"))}

-----------------------------------------------------------------------------
(* The bulk-update snippet: the Submit handler of its dialog.              *)

\* const chunks = chunk(targets, 200)
ChunkSize == 200

\* text.split(/\r?\n/).map(s => s.trim()).filter(Boolean): the lines of the
\* file that are not blank.  A line is a contact id (a positive number
\* stands for it) or blank (0).
ParseIds(lines) == SelectSeq(lines, LAMBDA l : l # 0)

\* buildTargets(ids, fieldName, value)
buildTargets(ids) ==
    [k \in 1..Len(ids) |-> [contactid |-> ids[k], mag_hascriticalinsights |-> FALSE]]

\* A chunk helper whose slices are one element short.
chunkShort(arr, size) ==
    [k \in 1..((Len(arr) + size - 1) \div size) |->
        SubSeq(arr, (k - 1) * size + 1,
               IF k * size - 1 < Len(arr) THEN k * size - 1 ELSE Len(arr))]

\* chunk(arr, size): for (i = 0; i < arr.length; i += size) arr.slice(i, i + size)
chunk(arr, size) ==
    [k \in 1..((Len(arr) + size - 1) \div size) |->
        SubSeq(arr, (k - 1) * size + 1,
               IF k * size < Len(arr) THEN k * size ELSE Len(arr))]

\* A line appended to the display area: "Submitting n updates in k
\* request(s)...", "Updated n contact(s)", "UpdateMultiple failed: ...",
\* "n records processed."
Line(kind, n, k) == [kind |-> kind, n |-> n, k |-> k]

\* The handler's state: where it is (pc), the targets and chunks it built,
\* the loop index i (0-based, as in the source), processedCount, the lines
\* it appended to the display area, the bodies of the POSTs it issued, and
\* the status of the response whose body it is reading.
BulkState(pc, targets, chunks, i, processedCount, display, posts, ok) ==
    [pc |-> pc, targets |-> targets, chunks |-> chunks, i |-> i,
     processedCount |-> processedCount, display |-> display, posts |-> posts,
     ok |-> ok]

BulkIdle == BulkState("idle", <<>>, <<>>, 0, 0, <<>>, <<>>, TRUE)

\* The for loop at its test, i < chunks.length: the next POST is issued, or
\* the final line is written.
LoopTest(b) ==
    IF b.i < Len(b.chunks)
    THEN [b EXCEPT !.pc = "posting", !.posts = Append(@, b.chunks[b.i + 1])]
    ELSE [b EXCEPT !.pc = "done",
                   !.display = Append(@, Line("records processed", Len(b.targets), 0))]

\* The handler once file.text() resolved with the lines (run.js 112-174).
AfterFileText(b, lines) ==
    LET targets == buildTargets(ParseIds(lines))
        chunks == chunk(targets, ChunkSize)
    IN  LoopTest([b EXCEPT !.targets = targets, !.chunks = chunks, !.i = 0,
                           !.display = Append(@, Line("Submitting", Len(targets),
                                                      Len(chunks)))])

\* A handler that goes on to the next chunk after a failure.
AfterResponseTextSkipping(b) ==
    IF ~b.ok
    THEN LoopTest([b EXCEPT !.i = @ + 1,
                            !.display = Append(@, Line("UpdateMultiple failed", 0, 0))])
    ELSE LET count == b.processedCount + Len(b.chunks[b.i + 1])
         IN  LoopTest([b EXCEPT !.processedCount = count, !.i = @ + 1,
                                !.display = Append(@, Line("Updated", count, 0))])

\* updateMultipleChunk once res.text() resolved (run.js 156-164), and the
\* loop that awaits it (174-183): a response that is not ok is reported and
\* thrown, and nothing catches it.
AfterResponseText(b) ==
    IF ~b.ok
    THEN [b EXCEPT !.pc = "failed",
                   !.display = Append(@, Line("UpdateMultiple failed", 0, 0))]
    ELSE LET count == b.processedCount + Len(b.chunks[b.i + 1])
         IN  LoopTest([b EXCEPT !.processedCount = count, !.i = @ + 1,
                                !.display = Append(@, Line("Updated", count, 0))])

-----------------------------------------------------------------------------
(* The state of the front-ends.                                            *)

\* An asynchronous operation: a manifest load, a selection with its pair of
\* fetches, a click on Run, a token save.
\*   f        the fetches it started (<<>> once it is over and they settled)
\*   done     whether what awaits it has gone on: the background handler
\*            called sendResponse, or Promise.all / the run settled
\*   code     the code a run was about (<<>>: none)
\*   confirm  <<>>: no confirm() dialog; <<b>>: shown, and answered b
\*   sent     a run: the code was sent in RUN_SNIPPET / evaluated
\*   token    a token save: the token stored
\*   result   a run: <<>> until it ended, then what runInMainWorld returned
\*            or what runSnippet reported (<<>> if no tab was found)
\*   outcome  a run that ended: what the page and the source text did
Op(type, snippet, f) ==
    [type |-> type, snippet |-> snippet, f |-> f, done |-> FALSE,
     code |-> <<>>, confirm |-> <<>>, sent |-> FALSE, token |-> <<>>,
     result |-> <<>>, outcome |-> <<>>]

\* A response of background.js to the popup.
Response(op, type, ok, error) ==
    [op |-> op, type |-> type, ok |-> ok, error |-> error,
     snippets |-> <<>>, readme |-> EmptyText, code |-> EmptyText, hasToken |-> FALSE,
     result |-> <<>>]

\* The status line: which message, about which snippet.
Meta(kind, snippet) == [kind |-> kind, snippet |-> snippet]

\* The preview pane: "empty", "readme" (the rendered text) or "error".
Preview(kind, text) == [kind |-> kind, text |-> text]

\* The last step of a fetch: the response it got (phase "raw" or "api"), the
\* state it was in, the token stored (extension) or held in
\* CONFIG.githubToken (runner) when the response came, the answer to the
\* prompt if one was shown, and the state the fetch went to.
Step(phase, status, body, before, cred, answer, after) ==
    [phase |-> phase, status |-> status, body |-> body, before |-> before,
     cred |-> cred, answer |-> answer, after |-> after]

NoStep ==
    Step("none", 0, EmptyText, NewFetch("none", <<>>), <<>>, <<>>,
         NewFetch("none", <<>>))

manifestUrl == rawUrl(DEFAULT_CONFIG, DEFAULT_CONFIG.manifestPath)

InitUi ==
    /\ inbox = <<>>
    /\ snippets = <<>>
    /\ list = <<>>
    /\ rendered = FALSE
    /\ selected = <<>>
    /\ selectedCode = <<>>
    /\ selectedReadme = <<>>
    /\ runBtn = [disabled |-> TRUE, onclick |-> <<>>]
    /\ copyBtn = [disabled |-> TRUE]
    /\ meta = Meta("Loading manifest", <<>>)
    /\ preview = Preview("empty", EmptyText)
    /\ lastStep = NoStep

\* The state once the popup's init() (popup.js 372-378) or the runner
\* (run.js 534-539) has started the manifest load.
InitSession(flags, stored, lim) ==
    /\ variant \in {"extension", "devtools"}
    /\ CONFIG \in [requireConfirmForRisky : flags,
                   riskyLevels : {{"medium", "high"}},
                   githubToken : {PromptSentinel}]
    /\ githubToken \in IF variant = "extension" THEN stored ELSE {<<>>}
    /\ limit = lim
    /\ callArg = <<>>
    /\ callRet = <<>>
    /\ bulk = BulkIdle
    /\ prompted = 0
    /\ ops = <<Op("LOAD_MANIFEST", <<>>, <<NewFetch("manifest", manifestUrl)>>)>>
    /\ InitUi

\* Sessions of the user interface.  The CONFIG literals of both front-ends
\* set requireConfirmForRisky to true; the model also runs with the flag
\* edited to false.  No token is stored.
Init == InitSession(BOOLEAN, {<<>>}, MaxOps)

\* Sessions of the fetch layer: the extension's storage holds no token, or
\* one saved in an earlier session.
InitFetch == InitSession({TRUE}, {<<>>, << <<"ghp_A">> >>}, MaxFetchOps)

-----------------------------------------------------------------------------
(* Continuations shared by the actions.                                    *)

\* A combinator that resolves with the first fetch that does.
PromiseFirst(op, k, g) ==
    IF op.done THEN "ignore"
    ELSE IF g.pc = "err" THEN "fail"
    ELSE IF g.pc = "ok" THEN "ok"
    ELSE "wait"

\* A combinator that reports every failure, also after it was decided.
PromiseEachFailure(op, k, g) ==
    IF g.pc = "err" THEN "fail"
    ELSE IF op.done THEN "ignore"
    ELSE IF \A j \in 1..Len(op.f) : [op.f EXCEPT ![k] = g][j].pc = "ok" THEN "ok"
    ELSE "wait"

\* Promise.all over the fetches of an operation (a manifest load has one),
\* seen when fetch k moved to state g: "fail" (g is the first to fail),
\* "ok" (all resolved), "wait", or "ignore" (it was decided before).
PromiseAll(op, k, g) ==
    LET fs == [op.f EXCEPT ![k] = g]
    IN  IF op.done THEN "ignore"
        ELSE IF g.pc = "err" THEN "fail"
        ELSE IF \A j \in 1..Len(fs) : fs[j].pc = "ok" THEN "ok"
        ELSE "wait"

\* A fetch nothing waits for any more.
Spent == [NewFetch("none", <<>>) EXCEPT !.pc = "spent", !.nRaw = 0]

\* The operation once fetch k moved to g.  Once it is over nothing reads
\* its settled fetches any more: they are forgotten, and all of them are
\* dropped when the last one settled.
OpAfterFetch(op, k, g) ==
    LET fs == [op.f EXCEPT ![k] = g]
        over == op.done \/ PromiseAll(op, k, g) \in {"fail", "ok"}
        kept == [j \in 1..Len(fs) |->
                    IF fs[j].pc \in {"raw", "api"} THEN fs[j] ELSE Spent]
    IN  [op EXCEPT !.done = over,
                   !.f = IF ~over THEN fs
                         ELSE IF \A j \in 1..Len(fs) : kept[j] = Spent THEN <<>>
                         ELSE kept]

\* s.readmePath || `snippets/${s.id}/README.md`, and the same for run.js;
\* an absent id is interpolated as "undefined".
IdText(s) == IF s.id = "" THEN "undefined" ELSE s.id
ReadmePathOf(s) ==
    IF s.readmePath # <<>> THEN s.readmePath
    ELSE <<"snippets", "/", IdText(s), "/", "README.md">>
EntryPathOf(s) ==
    IF s.entryPath # <<>> THEN s.entryPath
    ELSE <<"snippets", "/", IdText(s), "/", "run.js">>

FilesFetches(s) ==
    <<NewFetch("readme", rawUrl(DEFAULT_CONFIG, ReadmePathOf(s))),
      NewFetch("code", rawUrl(DEFAULT_CONFIG, EntryPathOf(s)))>>

\* String.prototype.toLowerCase on the risk words of the manifests.
toLowerCase(str) ==
    CASE str = "High" -> "high"
      [] str = "MEDIUM" -> "medium"
      [] OTHER -> str

\* A gate that never asks.
NeverConfirm(cfg, s) == FALSE

\* A gate that asks whatever requireConfirmForRisky says.
ConfirmWhateverTheFlag(cfg, s) == toLowerCase(s.risk) \in cfg.riskyLevels

\* CONFIG.requireConfirmForRisky && CONFIG.riskyLevels.has(risk), with
\* risk = String(s.risk || "").toLowerCase()
NeedsConfirm(cfg, s) ==
    cfg.requireConfirmForRisky /\ toLowerCase(s.risk) \in cfg.riskyLevels

\* The answers confirm() may give for a run of s: none when it is not shown.
ConfirmAnswers(s) ==
    IF NeedsConfirm(CONFIG, s) THEN {<<TRUE>>, <<FALSE>>} ELSE {<<>>}

uiVars == <<snippets, list, rendered, selected, selectedCode, selectedReadme,
            runBtn, copyBtn, meta, preview>>

harnessVars == <<limit, callArg, callRet, bulk, prompted>>

\* The manifest arrived and passed the checks: the list is rendered.
ManifestLoaded(loaded) ==
    /\ snippets' = loaded
    /\ list' = loaded
    /\ rendered' = TRUE
    /\ meta' = Meta("Loaded snippets from manifest", <<>>)
    /\ UNCHANGED <<selected, selectedCode, selectedReadme, runBtn, copyBtn, preview>>

\* The manifest load failed: only the status line changes.
ManifestFailed ==
    /\ meta' = Meta("Failed to load manifest", <<>>)
    /\ UNCHANGED <<snippets, list, rendered, selected, selectedCode,
                   selectedReadme, runBtn, copyBtn, preview>>

\* A completion that applies the texts only to the selection that asked.
FilesLoadedIfSelected(s, readme, code) ==
    IF selected = <<s>>
    THEN /\ selectedReadme' = <<readme>>
         /\ selectedCode' = <<code>>
         /\ preview' = Preview("readme", readme)
         /\ meta' = Meta("Details", <<s>>)
         /\ runBtn' = [disabled |-> FALSE,
                       onclick |-> IF variant = "devtools"
                                   THEN <<[s |-> s, code |-> code]>> ELSE <<>>]
         /\ copyBtn' = [disabled |-> FALSE]
         /\ UNCHANGED <<snippets, list, rendered, selected>>
    ELSE UNCHANGED <<snippets, list, rendered, selected, selectedCode, selectedReadme,
                     runBtn, copyBtn, meta, preview>>

\* selectSnippet(s) after both texts arrived (popup.js 258-276, run.js 623-655).
FilesLoaded(s, readme, code) ==
    /\ selectedReadme' = <<readme>>
    /\ selectedCode' = <<code>>
    /\ preview' = Preview("readme", readme)
    /\ meta' = Meta("Details", <<s>>)
    /\ runBtn' = [disabled |-> FALSE,
                  onclick |-> IF variant = "devtools"
                              THEN <<[s |-> s, code |-> code]>> ELSE <<>>]
    /\ copyBtn' = [disabled |-> FALSE]
    /\ UNCHANGED <<snippets, list, rendered, selected>>

\* selectSnippet(s) after the load failed: the popup shows the error in the
\* preview and throws (popup.js 253-256); the runner also sets the status
\* line (run.js 657-661).
FilesFailed(s) ==
    /\ preview' = Preview("error", EmptyText)
    /\ meta' = IF variant = "devtools"
               THEN Meta("Failed to load selected snippet files", <<s>>)
               ELSE meta
    /\ UNCHANGED <<snippets, list, rendered, selected, selectedCode,
                   selectedReadme, runBtn, copyBtn>>

\* What the background handler of operation i sends once fetch k moved to
\* g: nothing while it waits, else the one response of LOAD_MANIFEST
\* (background.js 156-169) or LOAD_SNIPPET_FILES (171-189), or the catch's
\* (199-201).
BgResponse(i, op, k, g) ==
    LET fs == [op.f EXCEPT ![k] = g]
        outcome == PromiseAll(op, k, g)
    IN  IF outcome = "fail" THEN <<Response(i, op.type, FALSE, g.err.kind)>>
        ELSE IF outcome = "ok"
        THEN IF op.type = "LOAD_MANIFEST"
             THEN LET r == ParseManifest(g.text)
                  IN  <<[Response(i, op.type, r.ok, r.error) EXCEPT !.snippets = r.snippets]>>
             ELSE <<[Response(i, op.type, TRUE, "") EXCEPT
                        !.readme = fs[1].text, !.code = fs[2].text]>>
        ELSE <<>>

\* The runner's own continuation once fetch k of operation i moved to g:
\* the manifest block (run.js 538-551, 707) or selectSnippet's try/catch
\* (617-661).
RunnerContinues(op, k, g) ==
    LET fs == [op.f EXCEPT ![k] = g]
        outcome == PromiseAll(op, k, g)
    IN  IF op.type = "LOAD_MANIFEST"
        THEN IF outcome = "ok" /\ ParseManifest(g.text).ok
             THEN ManifestLoaded(ParseManifest(g.text).snippets)
             ELSE IF outcome \in {"ok", "fail"} THEN ManifestFailed
             ELSE UNCHANGED uiVars
        ELSE IF outcome = "ok" THEN FilesLoaded(op.snippet[1], fs[1].text, fs[2].text)
             ELSE IF outcome = "fail" THEN FilesFailed(op.snippet[1])
             ELSE UNCHANGED uiVars

\* Fetch k of operation i moved to g: the code awaiting it goes on.
FetchMoved(i, k, g) ==
    /\ ops' = [ops EXCEPT ![i] = OpAfterFetch(ops[i], k, g)]
    /\ IF variant = "extension"
       THEN /\ inbox' = inbox \o BgResponse(i, ops[i], k, g)
            /\ UNCHANGED uiVars
       ELSE /\ UNCHANGED inbox
            /\ RunnerContinues(ops[i], k, g)

-----------------------------------------------------------------------------
(* The actions.                                                            *)
(*                                                                         *)
(* Scheduling.  A response of background.js reaches the popup before the   *)
(* user or a server does anything else, and lastStep, which only records   *)
(* history, is dropped before the next step.  Neither loses a behaviour of *)
(* the front-end: the popup receives responses in the order they were      *)
(* sent, a click made while a response is on its way reads and writes the  *)
(* popup's state as the same click made just before the response was sent, *)
(* and the handlers of background.js share nothing but the stored token,   *)
(* which only the handler of SET_TOKEN writes.                             *)

Idle == lastStep = NoStep /\ inbox = <<>>

\* Whether the code read the body of the raw response on its way to g:
\* res.text() of a success, safeRead(res) of a failure it reports.  On the
\* way to the API fallback the body is never read.
BodyRead(g) == g.pc = "ok" \/ (g.pc = "err" /\ g.err.kind = "fetch")

\* The raw GET of a fetch comes back (and its body, if the code reads it).
RawResponds(i, k, res) ==
    /\ Idle
    /\ ops[i].f[k].pc = "raw"
    /\ LET f == ops[i].f[k]
       IN  IF variant = "extension"
           THEN LET g == FetchTextWithFallbackAfterRaw(DEFAULT_CONFIG, f, res.status,
                                                        res.body, githubToken)
                IN  /\ BodyRead(g) \/ res.body = EmptyText
                    /\ lastStep' = Step("raw", res.status, res.body, f, githubToken, <<>>, g)
                    /\ FetchMoved(i, k, g)
                    /\ UNCHANGED <<CONFIG, prompted>>
           ELSE \E answer \in PromptAnswers :
                LET r == FetchTextAfterRaw(DEFAULT_CONFIG, CONFIG.githubToken, f,
                                           res.status, res.body, TRUE, answer)
                IN  /\ BodyRead(r.f) \/ res.body = EmptyText
                    /\ r.f.prompts > f.prompts \/ answer = <<>>
                    /\ lastStep' = Step("raw", res.status, res.body, f,
                                        <<CONFIG.githubToken>>,
                                        IF r.f.prompts > f.prompts THEN answer ELSE <<>>,
                                        r.f)
                    /\ CONFIG' = [CONFIG EXCEPT !.githubToken = r.githubToken]
                    /\ prompted' = prompted + (r.f.prompts - f.prompts)
                    /\ FetchMoved(i, k, r.f)
    /\ UNCHANGED <<variant, githubToken, limit, callArg, callRet, bulk>>

\* The contents-API GET of a fetch comes back.
ApiResponds(i, k, res) ==
    /\ Idle
    /\ ops[i].f[k].pc = "api"
    /\ LET f == ops[i].f[k]
           g == AfterApi(f, res)
       IN  /\ lastStep' = Step("api", res.status, res.body, f, <<>>, <<>>, g)
           /\ FetchMoved(i, k, g)
    /\ UNCHANGED <<variant, CONFIG, githubToken, harnessVars>>

\* The popup's Reload button: loadManifest up to its await (popup.js
\* 201-214), and the LOAD_MANIFEST handler up to its raw GET.
Reload ==
    /\ variant = "extension"
    /\ Idle
    /\ Len(ops) < limit
    /\ runBtn' = [runBtn EXCEPT !.disabled = TRUE]
    /\ copyBtn' = [disabled |-> TRUE]
    /\ preview' = Preview("empty", EmptyText)
    /\ selected' = <<>>
    /\ selectedCode' = <<>>
    /\ selectedReadme' = <<>>
    /\ meta' = Meta("Loading manifest", <<>>)
    /\ ops' = Append(ops, Op("LOAD_MANIFEST", <<>>, <<NewFetch("manifest", manifestUrl)>>))
    /\ UNCHANGED lastStep
    /\ UNCHANGED <<variant, CONFIG, githubToken, inbox, snippets, list, rendered,
                   harnessVars>>

\* A click on a list item: selectSnippet(s) up to its await (popup.js
\* 235-252, run.js 596-621).  In the extension the LOAD_SNIPPET_FILES
\* handler starts no fetch for a snippet without id (background.js 174).
SelectSnippet(s) ==
    /\ Idle
    /\ rendered
    /\ s \in Range(list)
    /\ Len(ops) < limit
    /\ selected' = <<s>>
    /\ selectedCode' = <<>>
    /\ selectedReadme' = <<>>
    /\ runBtn' = [runBtn EXCEPT !.disabled = TRUE]
    /\ copyBtn' = [disabled |-> TRUE]
    /\ meta' = Meta("Selected, loading README and code", <<s>>)
    /\ ops' = Append(ops, Op("LOAD_SNIPPET_FILES", <<s>>,
                                 IF variant = "extension" /\ s.id = ""
                                 THEN <<>> ELSE FilesFetches(s)))
    /\ UNCHANGED lastStep
    /\ UNCHANGED <<variant, CONFIG, githubToken, inbox, snippets, list, rendered,
                   preview, harnessVars>>

\* The LOAD_SNIPPET_FILES handler got a snippet without id:
\* if (!s?.id) throw new Error("Missing snippet.")  (background.js 172-174, 199-201).
MissingSnippet(i) ==
    /\ variant = "extension"
    /\ Idle
    /\ ops[i].type = "LOAD_SNIPPET_FILES"
    /\ ~ops[i].done
    /\ ops[i].f = <<>>
    /\ ops' = [ops EXCEPT ![i].done = TRUE]
    /\ inbox' = Append(inbox, Response(i, "LOAD_SNIPPET_FILES", FALSE, "Missing snippet."))
    /\ UNCHANGED lastStep
    /\ UNCHANGED <<variant, CONFIG, githubToken, uiVars, harnessVars>>

\* A run that ended before anything was sent or evaluated.
RunDropped(s, code, confirm) ==
    [Op("RUN_SNIPPET", s, <<>>) EXCEPT !.code = code, !.confirm = confirm, !.done = TRUE]

\* A run whose code was sent to the page / handed to eval.
RunStarted(s, code, confirm) ==
    [Op("RUN_SNIPPET", s, <<>>) EXCEPT !.code = code, !.confirm = confirm, !.sent = TRUE]

\* The popup's Run button: runSelected up to its await (popup.js 279-295).
\* An empty code text is falsy, like null.
RunSelected ==
    /\ variant = "extension"
    /\ Idle
    /\ ~runBtn.disabled
    /\ Len(ops) < limit
    /\ IF selected = <<>> \/ selectedCode = <<>> \/ selectedCode = <<EmptyText>>
       THEN /\ ops' = Append(ops, RunDropped(selected, selectedCode, <<>>))
            /\ UNCHANGED meta
       ELSE \E confirm \in ConfirmAnswers(selected[1]) :
                IF confirm = <<FALSE>>
                THEN /\ ops' = Append(ops, RunDropped(selected, selectedCode, confirm))
                     /\ UNCHANGED meta
                ELSE /\ ops' = Append(ops, RunStarted(selected, selectedCode, confirm))
                     /\ meta' = Meta("Running", selected)
    /\ UNCHANGED lastStep
    /\ UNCHANGED <<variant, CONFIG, githubToken, inbox, snippets, list, rendered,
                   selected, selectedCode, selectedReadme, runBtn, copyBtn, preview,
                   harnessVars>>

\* The runner's Run button: runBtn.onclick = () => runSnippet(s, code), up
\* to the await of the snippet's promise (run.js 664-695).  compiles: whether
\* eval accepts the wrapped text; if not, the catch reports it (699-703).
RunSnippet(compiles) ==
    /\ variant = "devtools"
    /\ Idle
    /\ ~runBtn.disabled
    /\ runBtn.onclick # <<>>
    /\ Len(ops) < limit
    /\ LET s == runBtn.onclick[1].s
           code == runBtn.onclick[1].code
       IN  \E confirm \in ConfirmAnswers(s) :
               IF confirm = <<FALSE>>
               THEN /\ ops' = Append(ops, RunDropped(<<s>>, <<code>>, confirm))
                    /\ UNCHANGED meta
               ELSE IF compiles
               THEN /\ ops' = Append(ops, RunStarted(<<s>>, <<code>>, confirm))
                    /\ meta' = Meta("Running", <<s>>)
               ELSE /\ ops' = Append(ops, [RunStarted(<<s>>, <<code>>, confirm)
                                              EXCEPT !.done = TRUE,
                                                     !.result = <<RunnerResult(SyntaxFailure)>>,
                                                     !.outcome = <<Outcome(TRUE, TRUE, SyntaxFailure)>>])
                    /\ meta' = Meta("Error running", <<s>>)
    /\ UNCHANGED lastStep
    /\ UNCHANGED <<variant, CONFIG, githubToken, inbox, snippets, list, rendered,
                   selected, selectedCode, selectedReadme, runBtn, copyBtn, preview,
                   harnessVars>>

\* The ways a started run of this front-end may end: the runner has no
\* tab to find and no Xrm check, and eval has accepted the text before the
\* run counts as started.
RunOutcomes ==
    IF variant = "extension" THEN AllOutcomes
    ELSE {o \in AllOutcomes : o.tab /\ o.xrm /\ o.src.kind # "syntax"}

\* A started run ends: the RUN_SNIPPET handler responds (background.js
\* 191-201), or the runner's await returns or throws (run.js 695-703).
RunSettles(i, outcome) ==
    /\ Idle
    /\ ops[i].type = "RUN_SNIPPET"
    /\ ops[i].sent
    /\ ~ops[i].done
    /\ outcome \in RunOutcomes
    /\ IF variant = "extension"
       THEN LET result == IF RunHandlerError(outcome) = ""
                          THEN <<RunInPage(outcome.xrm, outcome.src)>>
                          ELSE <<>>
            IN  /\ ops' = [ops EXCEPT ![i].done = TRUE, ![i].result = result,
                                      ![i].outcome = <<outcome>>]
                /\ inbox' = Append(inbox,
                                   [Response(i, "RUN_SNIPPET", RunHandlerError(outcome) = "",
                                             RunHandlerError(outcome))
                                       EXCEPT !.result = result])
                /\ UNCHANGED meta
       ELSE LET result == RunnerResult(outcome.src)
            IN  /\ ops' = [ops EXCEPT ![i].done = TRUE, ![i].result = <<result>>,
                                      ![i].outcome = <<outcome>>]
                /\ UNCHANGED inbox
                /\ meta' = Meta(IF result.ok THEN "Completed" ELSE "Error running",
                                ops[i].snippet)
    /\ UNCHANGED lastStep
    /\ UNCHANGED <<variant, CONFIG, githubToken, snippets, list, rendered,
                   selected, selectedCode, selectedReadme, runBtn, copyBtn, preview,
                   harnessVars>>

\* The token dialog's Save button (popup.js 347-350) and the SET_TOKEN
\* handler (background.js 149-154): both trim the token.
SaveToken(input) ==
    /\ variant = "extension"
    /\ Idle
    /\ Len(ops) < limit
    /\ LET token == Trim(Trim(input))
       IN  /\ githubToken' = <<token>>
           /\ ops' = Append(ops, [Op("SET_TOKEN", <<>>, <<>>) EXCEPT
                                     !.done = TRUE, !.token = <<token>>])
           /\ inbox' = Append(inbox, [Response(Len(ops) + 1, "SET_TOKEN", TRUE, "")
                                         EXCEPT !.hasToken = (token # <<>>)])
    /\ UNCHANGED lastStep
    /\ UNCHANGED <<variant, CONFIG, uiVars, harnessVars>>

\* The Token button (popup.js 337-345) and the GET_CONFIG handler
\* (background.js 142-147): hasToken: !!token.
ShowTokenDialog ==
    /\ variant = "extension"
    /\ Idle
    /\ Len(ops) < limit
    /\ ops' = Append(ops, [Op("GET_CONFIG", <<>>, <<>>) EXCEPT !.done = TRUE])
    /\ inbox' = Append(inbox, [Response(Len(ops) + 1, "GET_CONFIG", TRUE, "")
                                  EXCEPT !.hasToken = (getToken(githubToken) # <<>>)])
    /\ UNCHANGED lastStep
    /\ UNCHANGED <<variant, CONFIG, githubToken, uiVars, harnessVars>>

\* A message whose type the listener does not know, or without a type
\* (background.js 198): nothing in the popup sends one, and nothing in it
\* awaits the response.
UnknownMessage ==
    /\ variant = "extension"
    /\ Idle
    /\ Len(ops) < limit
    /\ ops' = Append(ops, [Op("UNKNOWN", <<>>, <<>>) EXCEPT !.done = TRUE])
    /\ inbox' = Append(inbox, Response(Len(ops) + 1, "UNKNOWN", FALSE,
                                        "Unknown message type."))
    /\ UNCHANGED lastStep
    /\ UNCHANGED <<variant, CONFIG, githubToken, uiVars, harnessVars>>

\* The popup receives the oldest response and the function awaiting it goes on.
PopupReceive ==
    /\ variant = "extension"
    /\ lastStep = NoStep
    /\ inbox # <<>>
    /\ inbox' = Tail(inbox)
    /\ LET r == Head(inbox)
       IN  CASE r.type = "LOAD_MANIFEST" ->
                    IF r.ok THEN ManifestLoaded(r.snippets) ELSE ManifestFailed
             [] r.type = "LOAD_SNIPPET_FILES" ->
                    IF r.ok THEN FilesLoaded(ops[r.op].snippet[1], r.readme, r.code)
                    ELSE FilesFailed(ops[r.op].snippet[1])
             [] r.type = "RUN_SNIPPET" ->
                    \* popup.js 296-313; selected.name throws when selected is null
                    /\ meta' = IF ~r.ok THEN Meta("Run failed", <<>>)
                               ELSE IF selected = <<>> THEN meta
                               ELSE Meta(IF r.result[1].ok THEN "Completed"
                                         ELSE "Error running", selected)
                    /\ UNCHANGED <<snippets, list, rendered, selected, selectedCode,
                                   selectedReadme, runBtn, copyBtn, preview>>
             [] r.type = "UNKNOWN" ->
                    /\ UNCHANGED <<snippets, list, rendered, selected, selectedCode,
                                   selectedReadme, runBtn, copyBtn, meta, preview>>
             [] r.type = "GET_CONFIG" ->
                    \* popup.js 339-342
                    /\ meta' = Meta(IF r.hasToken THEN "Token is set" ELSE "No token set", <<>>)
                    /\ UNCHANGED <<snippets, list, rendered, selected, selectedCode,
                                   selectedReadme, runBtn, copyBtn, preview>>
             [] OTHER ->
                    \* popup.js 351-353
                    /\ meta' = Meta(IF r.hasToken THEN "Token saved" ELSE "Token cleared", <<>>)
                    /\ UNCHANGED <<snippets, list, rendered, selected, selectedCode,
                                   selectedReadme, runBtn, copyBtn, preview>>
    /\ UNCHANGED lastStep
    /\ UNCHANGED <<variant, CONFIG, githubToken, ops, harnessVars>>

\* The record of the last fetch step is dropped.
Forget ==
    /\ lastStep # NoStep
    /\ lastStep' = NoStep
    /\ UNCHANGED <<variant, CONFIG, githubToken, ops, inbox, uiVars, harnessVars>>

\* Sessions of the user interface: the raw host serves every file or fails
\* with an internal error, so that no fetch falls back.
Next ==
    \/ Reload
    \/ \E s \in {SnipA, SnipB, SnipC, SnipD, SnipE} : SelectSnippet(s)
    \/ RunSelected
    \/ \E compiles \in BOOLEAN : RunSnippet(compiles)
    \/ \E i \in 1..Len(ops) : \E outcome \in PlainOutcomes : RunSettles(i, outcome)
    \/ \E i \in 1..Len(ops) : MissingSnippet(i)
    \/ \E i \in 1..Len(ops) : \E k \in 1..Len(ops[i].f) :
           \E res \in PlainResponses(ops[i].f[k]) : RawResponds(i, k, res)
    \/ PopupReceive
    \/ Forget

Spec == Init /\ [][Next]_vars

\* Sessions of the fetch layer: manifest loads, selections and token saves
\* against servers that may answer anything.
NextFetch ==
    \/ Reload
    \/ \E s \in {SnipA, SnipB, SnipC, SnipD, SnipE} : SelectSnippet(s)
    \/ \E input \in TokenInputs : SaveToken(input)
    \/ \E i \in 1..Len(ops) : MissingSnippet(i)
    \/ \E i \in 1..Len(ops) : \E k \in 1..Len(ops[i].f) :
           \E res \in RawResponses(ops[i].f[k]) : RawResponds(i, k, res)
    \/ \E i \in 1..Len(ops) : \E k \in 1..Len(ops[i].f) :
           \E res \in ApiResponses(ops[i].f[k]) : ApiResponds(i, k, res)
    \/ PopupReceive
    \/ Forget

SpecFetch == InitFetch /\ [][NextFetch]_vars

\* Sessions of the run operation: a repository that serves every file, and
\* pages and source texts that may do anything.
MaxRunOps == 4

HealthyResponses(f) ==
    IF f.role = "manifest" THEN {RawResponse(200, WellFormedManifest(<<SnipA, SnipB>>))}
    ELSE {RawResponse(200, FileText(f.url))}

InitRun == InitSession({TRUE}, {<<>>}, MaxRunOps)

NextRun ==
    \/ \E s \in {SnipA, SnipB} : SelectSnippet(s)
    \/ RunSelected
    \/ \E compiles \in BOOLEAN : RunSnippet(compiles)
    \/ \E i \in 1..Len(ops) : \E outcome \in AllOutcomes : RunSettles(i, outcome)
    \/ \E i \in 1..Len(ops) : \E k \in 1..Len(ops[i].f) :
           \E res \in HealthyResponses(ops[i].f[k]) : RawResponds(i, k, res)
    \/ PopupReceive
    \/ Forget

SpecRun == InitRun /\ [][NextRun]_vars

\* Sessions of the stored token: the popup against a repository that
\* serves its files or refuses them, and a contents API that serves them or
\* does not find them.
MaxTokenOps == 3

TokenRawResponses(f) ==
    {RawResponse(200, IF f.role = "manifest" THEN WellFormedManifest(<<SnipB>>)
                      ELSE FileText(f.url)),
     RawResponse(403, EmptyText)}

TokenApiResponses(f) ==
    {ApiResponse(200, EmptyText, "object", "file",
                 <<Base64(IF f.role = "manifest" THEN WellFormedManifest(<<SnipB>>)
                          ELSE FileText(f.url))>>),
     ApiResponse(404, EmptyText, "invalid", "", <<>>)}

InitToken ==
    /\ InitSession({TRUE}, {<<>>, << <<"ghp_A">> >>}, MaxTokenOps)
    /\ variant = "extension"

NextToken ==
    \/ Reload
    \/ SelectSnippet(SnipB)
    \/ \E input \in TokenInputs : SaveToken(input)
    \/ ShowTokenDialog
    \/ RunSelected
    \/ \E i \in 1..Len(ops) : \E outcome \in PlainOutcomes : RunSettles(i, outcome)
    \/ \E i \in 1..Len(ops) : \E k \in 1..Len(ops[i].f) :
           \E res \in TokenRawResponses(ops[i].f[k]) : RawResponds(i, k, res)
    \/ \E i \in 1..Len(ops) : \E k \in 1..Len(ops[i].f) :
           \E res \in TokenApiResponses(ops[i].f[k]) : ApiResponds(i, k, res)
    \/ PopupReceive
    \/ Forget

SpecToken == InitToken /\ [][NextToken]_vars

\* Sessions of the listener of background.js: every message type, a
\* repository whose manifest may be unreadable and whose files may be
\* refused or missing, and pages that may not be reachable.
MaxListenerOps == 3

ListenerRawResponses(f) ==
    {RawResponse(200, t) :
        t \in IF f.role = "manifest"
              THEN {Garbage, ManifestWith(JsonValue("object", "absent", <<>>)), WellFormedManifest(<<SnipB, SnipE>>)}
              ELSE {FileText(f.url)}}
        \cup {RawResponse(404, EmptyText), RawResponse(500, EmptyText)}

ListenerApiResponses(f) ==
    {ApiResponse(200, EmptyText, "object", "file",
                 <<Base64(IF f.role = "manifest" THEN WellFormedManifest(<<SnipB, SnipE>>)
                          ELSE FileText(f.url))>>),
     ApiResponse(404, EmptyText, "invalid", "", <<>>)}

InitListener ==
    /\ InitSession({TRUE}, {<<>>, << <<"ghp_A">> >>}, MaxListenerOps)
    /\ variant = "extension"

NextListener ==
    \/ Reload
    \/ \E s \in {SnipB, SnipE} : SelectSnippet(s)
    \/ \E input \in {<<>>, <<" ", "ghp_A", " ">>} : SaveToken(input)
    \/ ShowTokenDialog
    \/ UnknownMessage
    \/ RunSelected
    \/ \E i \in 1..Len(ops) :
           \E outcome \in PlainOutcomes \cup {InjectionFails, NoXrm} : RunSettles(i, outcome)
    \/ \E i \in 1..Len(ops) : MissingSnippet(i)
    \/ \E i \in 1..Len(ops) : \E k \in 1..Len(ops[i].f) :
           \E res \in ListenerRawResponses(ops[i].f[k]) : RawResponds(i, k, res)
    \/ \E i \in 1..Len(ops) : \E k \in 1..Len(ops[i].f) :
           \E res \in ListenerApiResponses(ops[i].f[k]) : ApiResponds(i, k, res)
    \/ PopupReceive
    \/ Forget

SpecListener == InitListener /\ [][NextListener]_vars

-----------------------------------------------------------------------------
(* The manifest load on its own: JSON.parse, the shape check and the sort  *)
(* applied to one manifest text.                                           *)

\* The names the entries of a manifest are given.
SortNames ==
    {<<>>, <<"a">>, <<"A">>, <<"b">>, <<"B">>, <<"a", "b">>, <<"A", "b">>, alpha, Beta}

\* The manifests with up to MaxManifestLen entries named from SortNames; the
\* id of an entry is its position in the array.
SortedManifests ==
    {WellFormedManifest([i \in 1..k |-> Descriptor(ToString(i), names[i], "", <<>>, <<>>)]) :
        k \in 0..MaxManifestLen, names \in [1..MaxManifestLen -> SortNames]}

\* A front-end at rest, for the specifications that call one function.
InitCall(which, args) ==
    /\ variant = which
    /\ CONFIG = [requireConfirmForRisky |-> TRUE, riskyLevels |-> {"medium", "high"},
                 githubToken |-> PromptSentinel]
    /\ githubToken = <<>>
    /\ limit = 0
    /\ callArg \in {<<a>> : a \in args}
    /\ callRet = <<>>
    /\ bulk = BulkIdle
    /\ prompted = 0
    /\ ops = <<>>
    /\ InitUi

InitManifest == InitCall("LOAD_MANIFEST", SortedManifests \cup MalformedManifests)

\* background.js 160-166 / run.js 540-544 on the text callArg[1].
LoadManifestText ==
    /\ variant = "LOAD_MANIFEST"
    /\ callRet = <<>>
    /\ callRet' = <<ParseManifest(callArg[1])>>
    /\ UNCHANGED <<variant, CONFIG, githubToken, ops, inbox, uiVars, lastStep, limit, callArg,
                   bulk, prompted>>

NextManifest == LoadManifestText

SpecManifest == InitManifest /\ [][NextManifest]_vars

-----------------------------------------------------------------------------
(* fetchViaGithubApi on its own: the URL mapping applied to one URL.       *)

\* A configuration whose ref differs from the default.
DevConfig == [DEFAULT_CONFIG EXCEPT !.ref = "dev"]

\* What a URL may go on with after its head.
TailAtoms == {"/", "snippets", "x.js"}

\* The heads of the URLs: every prefix of the default marker, and markers
\* of another host, owner, repository or ref.
UrlHeads ==
    {SubSeq(Marker(DEFAULT_CONFIG), 1, k) : k \in 0..Len(Marker(DEFAULT_CONFIG))}
        \cup {Marker(DevConfig),
              Marker([DEFAULT_CONFIG EXCEPT !.owner = "other"]),
              Marker([DEFAULT_CONFIG EXCEPT !.repo = "other"]),
              [Marker(DEFAULT_CONFIG) EXCEPT ![1] = "https://example.com/"]}

ApiCalls ==
    {[cfg |-> cfg, url |-> head \o tail, token |-> <<"ghp_A">>] :
        cfg \in {DEFAULT_CONFIG, DevConfig}, head \in UrlHeads,
        tail \in SeqsUpTo(TailAtoms, MaxTail)}

InitApi == InitCall("fetchViaGithubApi", ApiCalls)

\* fetchViaGithubApi(cfg, url) up to its first await, for a fetch of url
\* whose raw GET failed.
CallFetchViaGithubApi ==
    /\ variant = "fetchViaGithubApi"
    /\ callRet = <<>>
    /\ callRet' = <<fetchViaGithubApi(callArg[1].cfg, NewFetch("code", callArg[1].url),
                                      callArg[1].token)>>
    /\ UNCHANGED <<variant, CONFIG, githubToken, ops, inbox, uiVars, lastStep, limit, callArg,
                   bulk, prompted>>

NextApi == CallFetchViaGithubApi

SpecApi == InitApi /\ [][NextApi]_vars

-----------------------------------------------------------------------------
(* One submission of the bulk-update dialog.                               *)

MaxIds == 401

\* The numbers of ids a file holds: around the multiples of ChunkSize.
BulkSizes ==
    {n \in {0, 1, 2, ChunkSize - 1, ChunkSize, ChunkSize + 1,
            2 * ChunkSize - 1, 2 * ChunkSize, 2 * ChunkSize + 1, MaxIds} : n <= MaxIds}

\* The file input: no file chosen, or a file of n contact ids, one a line,
\* that may end with a newline and may hold a blank line after the first id.
BulkFile(chosen, lines) == [chosen |-> chosen, lines |-> lines]

BulkFiles ==
    {BulkFile(FALSE, <<>>)}
        \cup {BulkFile(TRUE, [k \in 1..n |-> k] \o tail) :
                n \in BulkSizes, tail \in {<<>>, <<0>>}}
        \cup {BulkFile(TRUE, <<1, 0>> \o [k \in 1..n |-> k + 1]) :
                n \in {m \in BulkSizes : 0 < m /\ m < MaxIds}}

InitBulk == InitCall("bulk-update", BulkFiles)

bulkFrame ==
    <<variant, CONFIG, githubToken, ops, inbox, uiVars, lastStep, limit, callArg, callRet,
      prompted>>

\* The Submit button is clicked (run.js 104-112): without a file the
\* handler alerts and returns, with one it reads the text.
Submit ==
    /\ variant = "bulk-update"
    /\ bulk.pc = "idle"
    /\ bulk' = [bulk EXCEPT !.pc = IF callArg[1].chosen THEN "reading file" ELSE "no file"]
    /\ UNCHANGED bulkFrame

\* file.text() resolves.
FileTextResolves ==
    /\ variant = "bulk-update"
    /\ bulk.pc = "reading file"
    /\ bulk' = AfterFileText(bulk, callArg[1].lines)
    /\ UNCHANGED bulkFrame

\* The POST in flight is answered (run.js 143-156), or fetch rejects and
\* the handler ends with it.
PostResponds(answer) ==
    /\ variant = "bulk-update"
    /\ bulk.pc = "posting"
    /\ bulk' = IF answer = "network error" THEN [bulk EXCEPT !.pc = "failed"]
               ELSE [bulk EXCEPT !.pc = "reading body", !.ok = (answer = "ok")]
    /\ UNCHANGED bulkFrame

\* res.text() resolves.
ResponseTextResolves ==
    /\ variant = "bulk-update"
    /\ bulk.pc = "reading body"
    /\ bulk' = AfterResponseText(bulk)
    /\ UNCHANGED bulkFrame

NextBulk ==
    \/ Submit
    \/ FileTextResolves
    \/ \E answer \in {"ok", "not ok", "network error"} : PostResponds(answer)
    \/ ResponseTextResolves

SpecBulk == InitBulk /\ [][NextBulk]_vars

-----------------------------------------------------------------------------
(* Properties of the fetch layer (SpecFetch).  They read lastStep: the     *)
(* response the last step delivered to a fetch and what the fetch did.     *)

RawStep == lastStep.phase = "raw"

AccessDenied == {401, 403, 404}

\* The credential at hand when the raw response came: in the extension the
\* trimmed stored token; in the runner the token entered at an earlier
\* prompt or, while CONFIG.githubToken is "prompt", the trimmed answer to
\* the prompt.  <<>>: none.
CredentialAtStep ==
    IF variant = "extension"
    THEN (IF lastStep.cred = <<>> THEN <<>> ELSE Trim(lastStep.cred[1]))
    ELSE IF lastStep.cred = <<PromptSentinel>>
         THEN (IF lastStep.answer = <<>> THEN <<>> ELSE Trim(lastStep.answer[1]))
         ELSE Trim(lastStep.cred[1])

\* The URL has the exact raw prefix of the configuration and goes on after it.
MapsToRepoPath(url) ==
    /\ Len(url) > 7
    /\ SubSeq(url, 1, 7) = <<"https://raw.githubusercontent.com/", "PVHewson", "/",
                             "snips", "/", "main", "/">>

\* C1: whenever the raw GET of a fetch comes back with 401, 403 or 404 and
\* a credential is available (stored; entered at an earlier prompt; or given
\* at the prompt) and the URL maps to a repository path, the fetch goes on
\* with one contents-API request carrying that credential as bearer token.
C1_FallbackRetried ==
    (RawStep /\ lastStep.status \in AccessDenied /\ CredentialAtStep # <<>>
        /\ MapsToRepoPath(lastStep.before.url))
    => /\ lastStep.after.pc = "api"
       /\ lastStep.after.nApi = 1
       /\ lastStep.after.bearer = CredentialAtStep

\* C2: whenever the raw GET comes back with a 2xx status, the fetch resolves
\* to the body of that response, no contents-API request is issued, the
\* token is not read and no prompt is shown, whatever token is stored.
C2_SuccessNeverFallsBack ==
    (RawStep /\ lastStep.status \in 200..299)
    => /\ lastStep.after.pc = "ok"
       /\ lastStep.after.text = lastStep.body
       /\ lastStep.after.nApi = 0
       /\ lastStep.after.apiUrl = <<>>
       /\ lastStep.after.tokenReads = 0
       /\ lastStep.after.prompts = 0

\* A raw 200 resolved a fetch of the extension while a token was stored.
C2_Witness ==
    /\ RawStep
    /\ lastStep.status = 200
    /\ variant = "extension"
    /\ lastStep.cred = << <<"ghp_A">> >>
    /\ lastStep.after.pc = "ok"
    /\ lastStep.after.text # EmptyText

\* C3: whenever the raw GET comes back with 401, 403 or 404 and no
\* credential is available (nothing or blanks stored; the prompt cancelled
\* or left blank), the fetch fails with the fetch error of that status and
\* that body text, and no contents-API request is issued.
C3_NoCredentialOriginalError ==
    (RawStep /\ lastStep.status \in AccessDenied /\ CredentialAtStep = <<>>)
    => /\ lastStep.after.pc = "err"
       /\ lastStep.after.err.kind = "fetch"
       /\ lastStep.after.err.status = lastStep.status
       /\ lastStep.after.err.details =
             IF lastStep.body.content = <<>> THEN <<>>
             ELSE <<"Details: ">> \o lastStep.body.content
       /\ lastStep.after.nApi = 0
       /\ lastStep.after.apiUrl = <<>>

\* A fetch failed on a 403 with a body: in the extension with a blank token
\* stored, in the runner with the prompt left blank.
C3_Witness ==
    /\ RawStep
    /\ lastStep.status = 403
    /\ lastStep.body # EmptyText
    /\ lastStep.after.pc = "err"
    /\ \/ variant = "extension" /\ lastStep.cred = << <<>> >>
       \/ variant = "devtools" /\ lastStep.answer = << <<" ">> >>

LiveFetches == UNION {Range(ops[i].f) : i \in 1..Len(ops)}

-----------------------------------------------------------------------------
(* Properties of the URL mapping (SpecApi).                                *)

\* C6: fetchViaGithubApi issues its request exactly when the URL starts
\* with https://raw.githubusercontent.com/<owner>/<repo>/<ref>/ of the
\* configuration in use and goes on after it, and the request is for the
\* remainder; for every other URL it fails with the "Could not map raw URL
\* to repo path" error and issues no request.
C6_UrlMapping ==
    (variant = "fetchViaGithubApi" /\ callRet # <<>>) =>
        LET cfg == callArg[1].cfg
            url == callArg[1].url
            g == callRet[1]
            prefix == <<"https://raw.githubusercontent.com/", cfg.owner, "/",
                        cfg.repo, "/", cfg.ref, "/">>
        IN  IF Len(url) > 7 /\ \A i \in 1..7 : url[i] = prefix[i]
            THEN /\ g.pc = "api"
                 /\ g.nApi = 1
                 /\ g.bearer = callArg[1].token
                 /\ g.apiUrl = <<"https://api.github.com/repos/", cfg.owner, "/", cfg.repo,
                                 "/contents/">>
                                   \o [i \in 1..(Len(url) - 7) |-> url[i + 7]]
                                   \o <<"?ref=", cfg.ref>>
            ELSE /\ g.pc = "err"
                 /\ g.err.kind = "map"
                 /\ g.nApi = 0
                 /\ g.apiUrl = <<>>

\* The call failed to map a URL that is the prefix and nothing more.
C6_Witness ==
    /\ variant = "fetchViaGithubApi"
    /\ callRet # <<>>
    /\ callRet[1].err.kind = "map"
    /\ callArg[1].url = Marker(callArg[1].cfg)

-----------------------------------------------------------------------------
(* Properties of the manifest load (SpecManifest).                         *)

\* The letters of a name, case put aside, and the case of its letters.
Letters(name) == [i \in 1..Len(name) |-> LetterIndex(name[i])]
Cases(name) == [i \in 1..Len(name) |-> IF IsUpper(name[i]) THEN 1 ELSE 0]

\* Where an entry stood in the manifest (the entries are pairwise distinct).
PositionIn(arr, e) == CHOOSE k \in 1..Len(arr) : arr[k] = e

LoadedFromArray ==
    /\ variant = "LOAD_MANIFEST"
    /\ callRet # <<>>
    /\ callArg[1] \in SortedManifests

\* The loaded list holds the entries of the array, ordered by their
\* letters with case put aside (an absent name first).
PermutationInLetterOrder(arr, out) ==
    /\ Len(out) = Len(arr)
    /\ Range(out) = Range(arr)
    /\ \A i, j \in 1..Len(out) :
          i < j => LexCompare(Letters(out[i].name), Letters(out[j].name)) <= 0

-----------------------------------------------------------------------------
(* Properties of a malformed manifest (SpecFetch).                         *)

\* The text is not JSON, or parses to null, to something that is no object,
\* or to an object whose snippets field is absent or no array.
Malformed(text) ==
    \/ text.json = <<>>
    \/ text.json[1].type # "object"
    \/ text.json[1].field # "array"

\* This step delivers the manifest text to the code that loads it.
ManifestTextArrives ==
    /\ lastStep = NoStep
    /\ lastStep'.before.role = "manifest"
    /\ lastStep'.after.pc = "ok"

\* This step delivers a failed LOAD_MANIFEST response to the popup.
ManifestFailureReceived ==
    /\ inbox # <<>>
    /\ inbox' = Tail(inbox)
    /\ Head(inbox).type = "LOAD_MANIFEST"
    /\ ~Head(inbox).ok

\* C8: when the manifest text that arrives is malformed, the load fails:
\* the LOAD_MANIFEST handler responds ok:false with an error and no
\* snippets, and when the popup receives that response, or at once in the
\* runner, the status line reports the failure and no list is stored or
\* rendered.
C8_MalformedManifestFails ==
    [][ /\ (ManifestTextArrives /\ Malformed(lastStep'.after.text)) =>
             /\ UNCHANGED <<snippets, list, rendered>>
             /\ IF variant = "extension"
                THEN /\ Len(inbox') = Len(inbox) + 1
                     /\ inbox'[Len(inbox')].type = "LOAD_MANIFEST"
                     /\ ~inbox'[Len(inbox')].ok
                     /\ inbox'[Len(inbox')].error # ""
                     /\ inbox'[Len(inbox')].snippets = <<>>
                ELSE meta' = [kind |-> "Failed to load manifest", snippet |-> <<>>]
        /\ ManifestFailureReceived =>
             /\ UNCHANGED <<snippets, list, rendered>>
             /\ meta' = [kind |-> "Failed to load manifest", snippet |-> <<>>]
      ]_vars

\* A manifest that is an object without a snippets field arrived: the
\* runner reports the failure, the background handler answered ok:false,
\* and no list was ever rendered.
C8_Witness ==
    /\ lastStep.before.role = "manifest"
    /\ lastStep.after.pc = "ok"
    /\ lastStep.after.text.json = <<[type |-> "object", field |-> "absent", items |-> <<>>]>>
    /\ ~rendered
    /\ IF variant = "extension"
       THEN inbox # <<>> /\ ~inbox[Len(inbox)].ok
       ELSE meta.kind = "Failed to load manifest"

-----------------------------------------------------------------------------
(* Properties of the confirmation gate (Spec).                             *)

RiskyLevels == {"medium", "high"}

\* C9: with requireConfirmForRisky set, a run of a selected descriptor
\* whose risk is "medium" or "high" sends or evaluates the code only if
\* confirm() returned true; when the user declines, nothing is sent or
\* evaluated, nothing will answer the run, and the status line, the
\* selection, the preview and the buttons stay as they were.
C9_RiskyRunNeedsConfirmation ==
    [][ \A i \in 1..Len(ops') :
          ( /\ ops'[i].type = "RUN_SNIPPET"
            /\ ops'[i].snippet # <<>>
            /\ CONFIG.requireConfirmForRisky
            /\ ops'[i].snippet[1].risk \in RiskyLevels ) =>
             /\ ops'[i].sent => ops'[i].confirm = <<TRUE>>
             /\ (i > Len(ops) /\ ops'[i].confirm = <<FALSE>>) =>
                   /\ ~ops'[i].sent
                   /\ ops'[i].done
                   /\ UNCHANGED <<inbox, meta, selected, selectedCode, selectedReadme,
                                  runBtn, copyBtn, preview, list>>
      ]_vars

\* A run of the high-risk snippet was declined: nothing was sent and the
\* status line still shows the details of the selection.
C9_Witness ==
    \E i \in 1..Len(ops) :
        /\ ops[i].type = "RUN_SNIPPET"
        /\ ops[i].snippet = <<SnipA>>
        /\ ops[i].confirm = <<FALSE>>
        /\ ~ops[i].sent
        /\ meta = [kind |-> "Details", snippet |-> <<SnipA>>]

\* The runs of a selected descriptor whose code, in the popup, is not empty.
RunsWithCode ==
    {i \in 1..Len(ops) :
        /\ ops[i].type = "RUN_SNIPPET"
        /\ ops[i].snippet # <<>>
        /\ variant = "extension" => ops[i].code \notin {<<>>, <<EmptyText>>}}

\* C10 (as amended): a run shows no confirmation dialog and goes on to
\* send or evaluate the code whenever requireConfirmForRisky is off or the
\* descriptor's risk, lower-cased, is not "medium" or "high", provided, in
\* the popup, that the code fetched is not empty.
C10_NoPromptWhenNotRisky ==
    \A i \in RunsWithCode :
        ( \/ ~CONFIG.requireConfirmForRisky
          \/ toLowerCase(ops[i].snippet[1].risk) \notin RiskyLevels ) =>
           /\ ops[i].confirm = <<>>
           /\ ops[i].sent

\* With requireConfirmForRisky off, the high-risk snippet ran without a
\* dialog.
C10_Witness ==
    /\ ~CONFIG.requireConfirmForRisky
    /\ \E i \in 1..Len(ops) :
          /\ ops[i].type = "RUN_SNIPPET"
          /\ ops[i].snippet = <<SnipA>>
          /\ ops[i].confirm = <<>>
          /\ ops[i].sent

\* C10 as stated: a run shows no confirmation dialog and goes on to send or
\* evaluate the code whenever requireConfirmForRisky is off or the
\* descriptor's risk is not a member of the risky set.
C10_AsStated ==
    \A i \in 1..Len(ops) :
        ( /\ ops[i].type = "RUN_SNIPPET"
          /\ ops[i].snippet # <<>>
          /\ \/ ~CONFIG.requireConfirmForRisky
             \/ ops[i].snippet[1].risk \notin CONFIG.riskyLevels ) =>
           /\ ops[i].confirm = <<>>
           /\ ops[i].sent

-----------------------------------------------------------------------------
(* The run operation (SpecRun).                                            *)

\* The runs that ended in a page that could host them.
RunsEnded ==
    {i \in 1..Len(ops) :
        /\ ops[i].type = "RUN_SNIPPET"
        /\ ops[i].done
        /\ ops[i].outcome # <<>>
        /\ ops[i].outcome[1].tab
        /\ ops[i].outcome[1].xrm}

\* C11: a source text that returns v yields the success result carrying
\* exactly v, and a source text that throws synchronously yields the failure
\* result with a non-empty message, whatever the value thrown.  The second
\* half fails: the extension reports an Error without a message with the
\* empty text (e?.message ?? e keeps the empty message), and both front-ends
\* report a thrown empty string with the empty text.
C11_ValueOrNonEmptyMessage ==
    \A i \in RunsEnded :
        LET src == ops[i].outcome[1].src
            r == ops[i].result[1]
        IN  /\ src.kind = "returns" => r = ExecResult(TRUE, <<src.out>>, <<>>, <<>>)
            /\ src.kind = "throws" => /\ ~r.ok
                                      /\ r.out = <<>>
                                      /\ r.error # <<>>
                                      /\ r.error[1] # ""

\* C12: every result of runInMainWorld is a success record with out and
\* neither error nor stack, or a failure record with both error and stack.
\* The result for a page without Xrm has an error and no stack field.
C12_SuccessOrMessageAndStack ==
    \A i \in 1..Len(ops) :
        (variant = "extension" /\ ops[i].type = "RUN_SNIPPET" /\ ops[i].result # <<>>)
            => LET r == ops[i].result[1]
               IN  IF r.ok THEN r.out # <<>> /\ r.error = <<>> /\ r.stack = <<>>
                   ELSE r.out = <<>> /\ r.error # <<>> /\ r.stack # <<>>

\* The run did not do what the snippet was meant to do.
Failing(o) == ~o.tab \/ ~o.injects \/ ~o.xrm \/ o.src.kind # "returns"

\* Run i ends in this step.
RunEnds(i) ==
    /\ i \in 1..Len(ops')
    /\ ops'[i].type = "RUN_SNIPPET"
    /\ ops'[i].sent
    /\ ops'[i].done
    /\ i \in 1..Len(ops) => ~ops[i].done

\* What a failure leaves alone: the list, the selection and its code, and
\* the Run button.
UsableAsBefore ==
    UNCHANGED <<snippets, list, rendered, selected, selectedCode, selectedReadme,
                runBtn, copyBtn>>

\* C13: whatever the source text does (eval rejects it, it throws, its
\* promise rejects), and whatever the page lacks, the run ends with a failure
\* result: the injected function returns {ok: false, error}, the handler
\* responds {ok: false, error} without a tab or an injection, runSnippet sets the error
\* status; and the step that reports the failure leaves the list, the
\* selection and the Run button as they were.
C13_FailureCaughtAndReported ==
    [][/\ \A i \in 1..(Len(ops) + 1) :
            (RunEnds(i) /\ Failing(ops'[i].outcome[1]))
                => /\ UsableAsBefore
                   /\ IF variant = "devtools"
                      THEN /\ ops'[i].result # <<>>
                           /\ ~ops'[i].result[1].ok
                           /\ ops'[i].result[1].error # <<>>
                           /\ meta' = Meta("Error running", ops'[i].snippet)
                      ELSE /\ inbox' # <<>>
                           /\ LET r == inbox'[Len(inbox')]
                              IN  /\ r.op = i
                                  /\ r.result = ops'[i].result
                                  /\ IF ops'[i].outcome[1].tab /\ ops'[i].outcome[1].injects
                                     THEN /\ r.ok
                                          /\ r.result # <<>>
                                          /\ ~r.result[1].ok
                                          /\ r.result[1].error # <<>>
                                     ELSE /\ ~r.ok
                                          /\ r.result = <<>>
                                          /\ r.error = IF ops'[i].outcome[1].tab
                                                       THEN "Cannot access contents of the page."
                                                       ELSE "No active tab."
       /\ (/\ inbox # <<>>
           /\ inbox' = Tail(inbox)
           /\ Head(inbox).type = "RUN_SNIPPET"
           /\ Failing(ops[Head(inbox).op].outcome[1]))
            => /\ UsableAsBefore
               /\ meta'.kind \in {"Run failed", "Error running"}]_vars

\* A second run was started after eval had rejected the text of the first.
C13_Witness ==
    \E i, j \in 1..Len(ops) :
        /\ i < j
        /\ ops[i].type = "RUN_SNIPPET"
        /\ ops[i].outcome = <<Outcome(TRUE, TRUE, SyntaxFailure)>>
        /\ ops[j].type = "RUN_SNIPPET"
        /\ ops[j].sent

-----------------------------------------------------------------------------
(* The load of a snippet's two files (SpecFetch).                          *)

\* Load i of a snippet's files, pending before this step, is touched by it.
LoadMoves(i) ==
    /\ ops[i].type = "LOAD_SNIPPET_FILES"
    /\ ~ops[i].done
    /\ ops[i].f # <<>>
    /\ ops'[i] # ops[i]

\* This step delivers the texts of load i: the handler's response says ok,
\* or the runner shows the snippet's details.
LoadSucceeds(i) ==
    IF variant = "extension"
    THEN /\ Len(inbox') = Len(inbox) + 1
         /\ inbox'[Len(inbox')].op = i
         /\ inbox'[Len(inbox')].ok
    ELSE ops'[i].done /\ meta' = Meta("Details", ops[i].snippet)

\* This step reports the failure of load i.
LoadFails(i) ==
    IF variant = "extension"
    THEN /\ Len(inbox') = Len(inbox) + 1
         /\ inbox'[Len(inbox')].op = i
         /\ ~inbox'[Len(inbox')].ok
    ELSE ops'[i].done /\ preview'.kind = "error"

\* Nothing of the selection that a failed load could have filled in changes.
PairUnused == UNCHANGED <<selectedCode, selectedReadme, runBtn, copyBtn>>

\* C14: a selection starts the README fetch and the code fetch together;
\* the load delivers texts only in the step in which the second of the two
\* fetches succeeded; the first fetch to fail ends the load with a failure;
\* and the step that applies a failure leaves the selection's code and
\* README and the Run and Copy buttons as the selection set them.
C14_BothOrNeither ==
    [][/\ (Len(ops') = Len(ops) + 1 /\ ops'[Len(ops')].type = "LOAD_SNIPPET_FILES"
              /\ ops'[Len(ops')].f # <<>>)
            => LET f == ops'[Len(ops')].f
               IN  /\ Len(f) = 2
                   /\ f[1].role = "readme" /\ f[1].pc = "raw" /\ f[1].nRaw = 1
                   /\ f[2].role = "code" /\ f[2].pc = "raw" /\ f[2].nRaw = 1
                   /\ selectedCode' = <<>> /\ selectedReadme' = <<>>
                   /\ runBtn'.disabled /\ copyBtn'.disabled
       /\ \A i \in 1..Len(ops) :
            LoadMoves(i)
                => /\ LoadSucceeds(i)
                        <=> /\ lastStep'.after.pc = "ok"
                            /\ \E k \in 1..2 :
                                 /\ ops[i].f[k] = lastStep'.before
                                 /\ ops[i].f[3 - k].pc = "ok"
                   /\ LoadFails(i) <=> lastStep'.after.pc = "err"
                   /\ ops'[i].done <=> lastStep'.after.pc \in {"ok", "err"}
                                           /\ (lastStep'.after.pc = "ok" => LoadSucceeds(i))
                   /\ (variant = "devtools" /\ LoadFails(i)) => PairUnused
                   /\ (variant = "devtools" /\ ~ops'[i].done) => UNCHANGED uiVars
       /\ (/\ inbox # <<>>
           /\ inbox' = Tail(inbox)
           /\ Head(inbox).type = "LOAD_SNIPPET_FILES"
           /\ ~Head(inbox).ok)
            => PairUnused /\ preview'.kind = "error"]_vars

\* The popup has shown the failure of a load whose two fetches have both
\* settled: no code, no README, Run and Copy disabled.
C14_Witness ==
    /\ variant = "extension"
    /\ inbox = <<>>
    /\ \E i \in 1..Len(ops) :
         /\ ops[i].type = "LOAD_SNIPPET_FILES"
         /\ ops[i].snippet = selected
         /\ selected[1].id # ""
         /\ ops[i].done
         /\ ops[i].f = <<>>
    /\ preview.kind = "error"
    /\ selectedCode = <<>>
    /\ selectedReadme = <<>>
    /\ runBtn.disabled
    /\ copyBtn.disabled

-----------------------------------------------------------------------------
(* Selections that overlap (SpecRun).                                      *)

\* The loads of snippet files, in the order the selections were made.
FileLoads == {i \in 1..Len(ops) : ops[i].type = "LOAD_SNIPPET_FILES"}

\* The load of the selection made last.
LatestLoad == CHOOSE i \in FileLoads : \A j \in FileLoads : j <= i

\* The texts the repository holds for s.
ReadmeOf(s) == FileText(rawUrl(DEFAULT_CONFIG, ReadmePathOf(s)))
CodeOf(s) == FileText(rawUrl(DEFAULT_CONFIG, EntryPathOf(s)))

\* C15: from a selection until its own pair of fetches has resolved, the Run
\* button is disabled.  It is not: the pair of an earlier selection that
\* resolves in between enables the button.
C15_RunDisabledUntilOwnPair ==
    (FileLoads # {} /\ ~ops[LatestLoad].done) => runBtn.disabled

\* C19: a pair of texts that arrives is applied to the selection variables
\* and the preview without a look at the selection: the step leaves
\* selected as it is, whichever snippet the texts were fetched for.
C19_CompletionIgnoresSelection ==
    [][/\ (/\ variant = "extension"
           /\ inbox # <<>>
           /\ inbox' = Tail(inbox)
           /\ Head(inbox).type = "LOAD_SNIPPET_FILES"
           /\ Head(inbox).ok)
            => /\ selectedCode' = <<Head(inbox).code>>
               /\ selectedReadme' = <<Head(inbox).readme>>
               /\ preview' = Preview("readme", Head(inbox).readme)
               /\ ~runBtn'.disabled
               /\ selected' = selected
       /\ \A i \in 1..Len(ops) :
            (/\ variant = "devtools"
             /\ ops[i].type = "LOAD_SNIPPET_FILES"
             /\ ~ops[i].done
             /\ ops'[i].done
             /\ lastStep'.after.pc = "ok")
                => /\ selectedCode' = <<CodeOf(ops[i].snippet[1])>>
                   /\ selectedReadme' = <<ReadmeOf(ops[i].snippet[1])>>
                   /\ preview' = Preview("readme", ReadmeOf(ops[i].snippet[1]))
                   /\ ~runBtn'.disabled
                   /\ selected' = selected]_vars

\* SnipA was selected, then SnipB; both loads are over and applied; SnipB is
\* the selection, and the code, the README and the preview are SnipA's.
C19_Witness ==
    /\ inbox = <<>>
    /\ \E i, j \in FileLoads :
         /\ i < j
         /\ ops[i].snippet = <<SnipA>> /\ ops[i].done
         /\ ops[j].snippet = <<SnipB>> /\ ops[j].done
         /\ j = LatestLoad
    /\ selected = <<SnipB>>
    /\ selectedCode = <<CodeOf(SnipA)>>
    /\ selectedReadme = <<ReadmeOf(SnipA)>>
    /\ preview = Preview("readme", ReadmeOf(SnipA))

\* C20: in the popup, the code of a RUN_SNIPPET message is the code fetched
\* for the descriptor whose risk the gate looked at, so the code of a risky
\* descriptor is never sent without a confirmation.  It is: the gate reads
\* selected, the message carries selectedCode, and a late pair makes the two
\* belong to different descriptors.
C20_RunsCodeOfGatedDescriptor ==
    \A i \in 1..Len(ops) :
        (variant = "extension" /\ ops[i].type = "RUN_SNIPPET" /\ ops[i].sent)
            => /\ ops[i].code = <<CodeOf(ops[i].snippet[1])>>
               /\ \A s \in Range(snippets) :
                    (ops[i].code = <<CodeOf(s)>> /\ NeedsConfirm(CONFIG, s))
                        => ops[i].confirm = <<TRUE>>

-----------------------------------------------------------------------------
(* The stored token (SpecToken).                                           *)

\* The SET_TOKEN messages handled so far, and the last of them.
SetTokens == {i \in 1..Len(ops) : ops[i].type = "SET_TOKEN"}
LastSetToken == CHOOSE i \in SetTokens : \A j \in SetTokens : j <= i

\* C16: only SET_TOKEN changes the stored token, and it stores the trimmed
\* text.  Once a SET_TOKEN was handled, with t the token of the last one:
\* GET_CONFIG reports hasToken exactly when t is not empty; a raw GET that
\* comes back 401/403/404 goes to the contents API with Bearer t when t is
\* not empty, and fails without an API request when it is.
C16_TokenInForceUntilNextSet ==
    [][/\ githubToken' # githubToken
            => /\ Len(ops') = Len(ops) + 1
               /\ ops'[Len(ops')].type = "SET_TOKEN"
               /\ githubToken' = ops'[Len(ops')].token
               /\ githubToken'[1] = Trim(githubToken'[1])
       /\ SetTokens # {}
            => LET t == ops[LastSetToken].token[1]
               IN  /\ (/\ Len(inbox') = Len(inbox) + 1
                       /\ inbox'[Len(inbox')].type = "GET_CONFIG")
                        => /\ inbox'[Len(inbox')].ok
                           /\ inbox'[Len(inbox')].hasToken = (t # <<>>)
                   /\ (/\ lastStep' # lastStep
                       /\ lastStep'.phase = "raw"
                       /\ lastStep'.status \in FallbackStatuses)
                        => IF t # <<>>
                           THEN /\ lastStep'.after.pc = "api"
                                /\ lastStep'.after.nApi = 1
                                /\ lastStep'.after.bearer = t
                           ELSE /\ lastStep'.after.pc = "err"
                                /\ lastStep'.after.nApi = 0]_vars

\* The token was cleared, then set to " ghp_A ", and the next refused raw
\* GET went to the contents API with Bearer ghp_A.
C16_Witness ==
    /\ \E i, j \in SetTokens :
         /\ i < j
         /\ ops[i].token = << <<>> >>
         /\ ops[j].token = << <<"ghp_A">> >>
         /\ j = LastSetToken
    /\ lastStep.phase = "raw"
    /\ lastStep.status = 403
    /\ lastStep.after.pc = "api"
    /\ lastStep.after.bearer = <<"ghp_A">>

-----------------------------------------------------------------------------
(* The bulk update (SpecBulk).                                             *)

RECURSIVE Flatten(_)
\* The sequences of a sequence, one after another.
Flatten(seqs) == IF seqs = <<>> THEN <<>> ELSE Head(seqs) \o Flatten(Tail(seqs))

\* The lines of a display area.
LinesOf(display, kind) == SelectSeq(display, LAMBDA l : l.kind = kind)

\* C17: the body of a response that is not ok ends the submission: the step
\* that reads it issues no POST, leaves processedCount and the loop index
\* alone and appends the failure line only; nothing happens afterwards; and
\* a submission that failed has posted the chunks up to the failed one, once
\* each, counted the chunks before it, and has not written the final line.
C17_AbortOnFirstFailure ==
    [][/\ (bulk.pc = "reading body" /\ ~bulk.ok)
            => /\ bulk'.pc = "failed"
               /\ bulk'.posts = bulk.posts
               /\ bulk'.processedCount = bulk.processedCount
               /\ bulk'.i = bulk.i
               /\ bulk'.display = Append(bulk.display, Line("UpdateMultiple failed", 0, 0))
       /\ bulk.pc = "failed" => bulk' = bulk
       /\ bulk'.pc = "failed"
            => /\ bulk'.posts = SubSeq(bulk'.chunks, 1, bulk'.i + 1)
               /\ bulk'.processedCount = Len(Flatten(SubSeq(bulk'.chunks, 1, bulk'.i)))
               /\ LinesOf(bulk'.display, "records processed") = <<>>
               /\ Len(LinesOf(bulk'.display, "UpdateMultiple failed")) <= 1]_vars

\* The second of three chunks got a response that was not ok: the third was
\* never posted.
C17_Witness ==
    /\ bulk.pc = "failed"
    /\ Len(bulk.chunks) = 3
    /\ bulk.i = 1
    /\ Len(bulk.posts) = 2
    /\ bulk.processedCount = ChunkSize
    /\ bulk.display[Len(bulk.display)] = Line("UpdateMultiple failed", 0, 0)

\* What holds of a submission at any moment: the targets are the non-blank
\* lines of the file in file order; every POST carries at most ChunkSize
\* targets and every chunk but the last exactly ChunkSize; the POSTs issued
\* so far, one after another, are a prefix of the targets; at most one POST
\* is unanswered; the k-th progress line reports the targets of the POSTs
\* 1..k; and a submission that is done has posted all targets, counted them
\* all and written their number.
BulkInOrder ==
    LET lines == callArg[1].lines
        sent == Flatten(bulk.posts)
        updated == LinesOf(bulk.display, "Updated")
    IN  /\ bulk.pc \notin {"idle", "no file", "reading file"}
            => /\ Len(bulk.targets) = Cardinality({p \in 1..Len(lines) : lines[p] # 0})
               /\ \A k \in 1..Len(bulk.targets) :
                    /\ \E p \in 1..Len(lines) : lines[p] = bulk.targets[k].contactid
                    /\ bulk.targets[k].contactid # 0
                    /\ k > 1 => bulk.targets[k - 1].contactid < bulk.targets[k].contactid
        /\ \A k \in 1..Len(bulk.posts) :
             /\ Len(bulk.posts[k]) \in 1..ChunkSize
             /\ k * ChunkSize < Len(bulk.targets) => Len(bulk.posts[k]) = ChunkSize
        /\ sent = SubSeq(bulk.targets, 1, Len(sent))
        /\ Len(bulk.posts) \in {bulk.i, bulk.i + 1}
        /\ bulk.pc \in {"posting", "reading body"} <=> Len(bulk.posts) = bulk.i + 1 /\ bulk.pc # "failed"
        /\ Len(updated) = bulk.i
        /\ \A k \in 1..Len(updated) :
             updated[k].n = Len(Flatten(SubSeq(bulk.posts, 1, k)))
        /\ bulk.pc = "done"
            => /\ sent = bulk.targets
               /\ bulk.processedCount = Len(bulk.targets)
               /\ bulk.display[Len(bulk.display)]
                    = Line("records processed", Len(bulk.targets), 0)

\* C18: the POSTs of a submission are issued one after another, the next
\* only in the step that read the body of the previous response; each
\* carries at most 200 targets and all but the last exactly 200; on success
\* they are the target list in file order, the count reported after chunk k
\* is the number of targets of chunks 1..k, and n at the end.
C18_SequentialChunksInOrder ==
    [][/\ BulkInOrder'
       /\ bulk'.posts # bulk.posts
            => /\ Len(bulk'.posts) = Len(bulk.posts) + 1
               /\ SubSeq(bulk'.posts, 1, Len(bulk.posts)) = bulk.posts
               /\ \/ bulk.pc = "reading file" /\ bulk.posts = <<>>
                  \/ bulk.pc = "reading body" /\ bulk.ok]_vars

\* A file of 401 ids with a blank line was submitted in three POSTs.
C18_Witness ==
    /\ bulk.pc = "done"
    /\ Len(bulk.posts) = 3
    /\ Len(bulk.posts[3]) = 1
    /\ Len(bulk.targets) = 2 * ChunkSize + 1
    /\ \E p \in 1..Len(callArg[1].lines) : callArg[1].lines[p] = 0

-----------------------------------------------------------------------------
(* The runner's token prompt (SpecFetch).                                  *)

\* The last step showed the prompt.
PromptShown == lastStep.after.prompts > lastStep.before.prompts

\* C21: the runner shows the token prompt at most once in a session, and
\* only to a fetch whose raw GET came back 401, 403 or 404.  The second half
\* holds.  The first does not: a prompt that is left blank or cancelled
\* leaves CONFIG.githubToken at "prompt", so the next refused fetch, the
\* other fetch of the same pair included, shows the prompt again.
C21_PromptAtMostOnce ==
    /\ prompted <= 1
    /\ prompted > 0 => variant = "devtools"
    /\ PromptShown => /\ lastStep.phase = "raw"
                      /\ lastStep.status \in FallbackStatuses
                      /\ lastStep.cred = <<PromptSentinel>>

-----------------------------------------------------------------------------
(* The listener of background.js (SpecListener).                           *)

\* Operation i was done before this step.
WasDone(i) == i \in 1..Len(ops) /\ ops[i].done

\* This step calls sendResponse for operation i.
Answered(i) == Len(inbox') = Len(inbox) + 1 /\ inbox'[Len(inbox')].op = i

\* The operation is a message the listener received: a run the popup gave
\* up before sending is none.
Delivered(op) == op.type # "RUN_SNIPPET" \/ op.sent

\* What the response r to operation op must be, given the step that sent it.
RightResponse(op, r) ==
    /\ r.type = op.type
    /\ ~r.ok => r.error # ""
    /\ CASE op.type = "GET_CONFIG" ->
                r.ok /\ r.hasToken = (getToken(githubToken) # <<>>)
         [] op.type = "SET_TOKEN" ->
                r.ok /\ r.hasToken = (op.token[1] # <<>>) /\ githubToken' = op.token
         [] op.type = "LOAD_MANIFEST" ->
                /\ lastStep'.after.role = "manifest"
                /\ IF r.ok
                   THEN /\ lastStep'.after.pc = "ok"
                        /\ ParseManifest(lastStep'.after.text).ok
                        /\ r.snippets = ParseManifest(lastStep'.after.text).snippets
                   ELSE \/ lastStep'.after.pc = "err"
                        \/ /\ lastStep'.after.pc = "ok"
                           /\ ~ParseManifest(lastStep'.after.text).ok
         [] op.type = "LOAD_SNIPPET_FILES" ->
                IF op.snippet[1].id = ""
                THEN ~r.ok /\ r.error = "Missing snippet."
                ELSE IF r.ok
                THEN /\ lastStep'.after.pc = "ok"
                     /\ r.readme = ReadmeOf(op.snippet[1])
                     /\ r.code = CodeOf(op.snippet[1])
                ELSE lastStep'.after.pc = "err"
         [] op.type = "RUN_SNIPPET" ->
                /\ r.result = op.result
                /\ IF r.ok THEN r.result # <<>>
                   ELSE /\ r.result = <<>>
                        /\ r.error \in {"No active tab.",
                                        "Cannot access contents of the page."}
         [] OTHER ->
                ~r.ok /\ r.error = "Unknown message type."

\* C22: every message gets exactly one response.  No step sends two; an
\* operation that was done is done for good and gets no further response;
\* a message is answered in the very step that ends its handler and in no
\* other; and the response is ok with the payload of the operation, or not
\* ok with the error: "Unknown message type." for a type the listener does
\* not know, the message of whatever the handler threw otherwise.
C22_ExactlyOneResponse ==
    [][/\ Len(inbox') <= Len(inbox) + 1
       /\ Len(inbox') > Len(inbox) => SubSeq(inbox', 1, Len(inbox)) = inbox
       /\ Len(ops') >= Len(ops)
       /\ \A i \in 1..Len(ops') :
            /\ WasDone(i) => ops'[i].done /\ ~Answered(i)
            /\ Answered(i) <=> (~WasDone(i) /\ ops'[i].done /\ Delivered(ops'[i]))
            /\ Answered(i) => RightResponse(ops'[i], inbox'[Len(inbox')])]_vars

\* The README fetch and the code fetch of one load both failed: the second
\* failure was the last step, and it sent nothing.
C22_Witness ==
    /\ variant = "extension"
    /\ inbox = <<>>
    /\ lastStep.phase = "raw"
    /\ lastStep.after.pc = "err"
    /\ lastStep.after.role \in {"readme", "code"}
    /\ preview.kind = "error"
    /\ \E i \in 1..Len(ops) :
         /\ ops[i].type = "LOAD_SNIPPET_FILES"
         /\ ops[i].snippet[1].id # ""
         /\ ops[i].done
         /\ ops[i].f = <<>>

=============================================================================
